---- MODULE Spec2Model ----
(***************************************************************************)
(* State machine of the luxo-tcp-app game server: the binary message       *)
(* codec, the shared ServerData registry (connected users, ongoing games), *)
(* the command interpreter, the dispatcher and its broadcast bus, and the  *)
(* per-connection handler threads.                                         *)
(*                                                                         *)
(* Text is modelled as the sequence of its bytes (Vec<u8> / String).       *)
(***************************************************************************)
EXTENDS Integers, Sequences, FiniteSets, TLC

VARIABLES
    connected_users,  \* ServerData.connected_users : Vec<u64>
    ongoing_games,    \* ServerData.ongoing_games   : Vec<Game>
    lock,             \* state of the registry RwLock: "free", "deadlocked", "poisoned"
    clock,            \* the timestamp the next Game::new reads
    pc,               \* position of each connection thread
    local_id,         \* local_id of each connection thread (0 = not authenticated)
    rx,               \* content of each connection's broadcast Receiver
    intake,           \* content of the thread_send -> dispatcher channel
    senders,          \* Broadcast.senders : Vec<(Sender, u64)>
    issued,           \* the ids add_user has returned so far, in order
    ncmd,             \* number of frames the main loops have processed
    last,             \* what the most recent handler step read, wrote and posted
    hold,             \* what each connection thread holds between two steps
    unread            \* whether each stream holds bytes written earlier

vars == <<connected_users, ongoing_games, lock, clock, pc, local_id, rx, intake,
          senders, issued, ncmd, last, hold, unread>>

(***************************************************************************)
(* Bounds of the model.                                                    *)
(***************************************************************************)
MaxConns == 2      \* connections the listener accepts
MaxCmds == 5       \* frames the main loops process in one run
MaxGames == 2      \* games created in one run
MaxQueue == 1      \* messages held in one channel
MaxLen == 3        \* bytes of the short payloads given to the codec

Conns == 1..MaxConns

(***************************************************************************)
(* Program constants.                                                      *)
(***************************************************************************)
BUFFER_SIZE == 4096     \* temp_buffer of process_stream
INITIAL_ATTEMPTS == 3   \* Game::new
U8_MAX == 255
U16_MOD == 65536

\* MessageType as its repr(u8) tag
MT_Unknown == 0
MT_Command == 1
MT_Message == 2

\* GameState
Victory == "Victory"
Defeat == "Defeat"
Ongoing == "Ongoing"

(***************************************************************************)
(* Text constants of the protocol, as bytes.                               *)
(***************************************************************************)
\* "DM"
S_DM == <<68, 77>>
\* "HEARTBEAT"
S_HEARTBEAT == <<72, 69, 65, 82, 84, 66, 69, 65, 84>>
\* "DROP"
S_DROP == <<68, 82, 79, 80>>
\* "HINT"
S_HINT == <<72, 73, 78, 84>>
\* "GUESS"
S_GUESS == <<71, 85, 69, 83, 83>>
\* "STARTGAME"
S_STARTGAME == <<83, 84, 65, 82, 84, 71, 65, 77, 69>>
\* "CANCEL"
S_CANCEL == <<67, 65, 78, 67, 69, 76>>
\* "REQUEST"
S_REQUEST == <<82, 69, 81, 85, 69, 83, 84>>
\* "VICTORY"
T_VICTORY == <<86, 73, 67, 84, 79, 82, 89>>
\* "DEFEAT"
T_DEFEAT == <<68, 69, 70, 69, 65, 84>>
\* "MATCH CANCELED"
T_MATCH_CANCELED == <<77, 65, 84, 67, 72, 32, 67, 65, 78, 67, 69, 76, 69, 68>>
\* "CANCELED"
T_CANCELED == <<67, 65, 78, 67, 69, 76, 69, 68>>
\* "REQUESTEDGAME"
T_REQUESTEDGAME == <<82, 69, 81, 85, 69, 83, 84, 69, 68, 71, 65, 77, 69>>
\* "REQUESTACK"
T_REQUESTACK == <<82, 69, 81, 85, 69, 83, 84, 65, 67, 75>>
\* "Unknown command received"
T_UNKNOWN_CMD == <<85, 110, 107, 110, 111, 119, 110, 32, 99, 111, 109, 109, 97, 110, 100, 32, 114, 101, 99, 101, 105, 118, 101, 100>>
\* "OK Heartbeat received"
T_HEARTBEAT_OK == <<79, 75, 32, 72, 101, 97, 114, 116, 98, 101, 97, 116, 32, 114, 101, 99, 101, 105, 118, 101, 100>>
\* "Hint sent"
T_HINT_SENT == <<72, 105, 110, 116, 32, 115, 101, 110, 116>>
\* "HINT "
T_HINT_ == <<72, 73, 78, 84, 32>>
\* "Guess "
T_GUESS_ == <<71, 117, 101, 115, 115, 32>>
\* "OK GUESS "
T_OK_GUESS_ == <<79, 75, 32, 71, 85, 69, 83, 83, 32>>
\* " IS INCORRECT, "
T_IS_INCORRECT_ == <<32, 73, 83, 32, 73, 78, 67, 79, 82, 82, 69, 67, 84, 44, 32>>
\* " ATTEMPTS LEFT"
T_ATTEMPTS_LEFT == <<32, 65, 84, 84, 69, 77, 80, 84, 83, 32, 76, 69, 70, 84>>
\* "ID "
T_ID_ == <<73, 68, 32>>
\* "ERROR password incorrect"
T_ERR_PASSWORD == <<69, 82, 82, 79, 82, 32, 112, 97, 115, 115, 119, 111, 114, 100, 32, 105, 110, 99, 111, 114, 114, 101, 99, 116>>
\* "ERROR command incorrect"
T_ERR_COMMAND == <<69, 82, 82, 79, 82, 32, 99, 111, 109, 109, 97, 110, 100, 32, 105, 110, 99, 111, 114, 114, 101, 99, 116>>
\* "OPPONENT LIST "
T_OPPONENT_LIST_ == <<79, 80, 80, 79, 78, 69, 78, 84, 32, 76, 73, 83, 84, 32>>
\* "ERROR No opponents found"
T_ERR_NO_OPPONENTS == <<69, 82, 82, 79, 82, 32, 78, 111, 32, 111, 112, 112, 111, 110, 101, 110, 116, 115, 32, 102, 111, 117, 110, 100>>
\* "Message "
T_MESSAGE_ == <<77, 101, 115, 115, 97, 103, 101, 32>>
\* " sent"
T__SENT == <<32, 115, 101, 110, 116>>
\* "OK Sent '"
T_OK_SENT_ == <<79, 75, 32, 83, 101, 110, 116, 32, 39>>
\* "' to ID "
T__TO_ID_ == <<39, 32, 116, 111, 32, 73, 68, 32>>
\* "ERROR user "
T_ERR_USER_ == <<69, 82, 82, 79, 82, 32, 117, 115, 101, 114, 32>>
\* "user "
T_USER_ == <<117, 115, 101, 114, 32>>
\* " doesn't exist, cannot begin game"
T__NOT_EXIST_GAME == <<32, 100, 111, 101, 115, 110, 39, 116, 32, 101, 120, 105, 115, 116, 44, 32, 99, 97, 110, 110, 111, 116, 32, 98, 101, 103, 105, 110, 32, 103, 97, 109, 101>>
\* " cannot match with himself!"
T__SELF_MATCH == <<32, 99, 97, 110, 110, 111, 116, 32, 109, 97, 116, 99, 104, 32, 119, 105, 116, 104, 32, 104, 105, 109, 115, 101, 108, 102, 33>>
\* " doesn't exist"
T__NOT_EXIST == <<32, 100, 111, 101, 115, 110, 39, 116, 32, 101, 120, 105, 115, 116>>
\* "game has no oppponent"
T_NO_OPPONENT == <<103, 97, 109, 101, 32, 104, 97, 115, 32, 110, 111, 32, 111, 112, 112, 112, 111, 110, 101, 110, 116>>
\* "game has no host"
T_NO_HOST == <<103, 97, 109, 101, 32, 104, 97, 115, 32, 110, 111, 32, 104, 111, 115, 116>>
\* "Game does not exist, cannot update guess"
T_GUESS_NO_GAME == <<71, 97, 109, 101, 32, 100, 111, 101, 115, 32, 110, 111, 116, 32, 101, 120, 105, 115, 116, 44, 32, 99, 97, 110, 110, 111, 116, 32, 117, 112, 100, 97, 116, 101, 32, 103, 117, 101, 115, 115>>
\* "game does not exist, cannot update hint"
T_HINT_NO_GAME == <<103, 97, 109, 101, 32, 100, 111, 101, 115, 32, 110, 111, 116, 32, 101, 120, 105, 115, 116, 44, 32, 99, 97, 110, 110, 111, 116, 32, 117, 112, 100, 97, 116, 101, 32, 104, 105, 110, 116>>
\* "ERROR Direct message must be at least 8 bytes long"
T_ERR_8BYTES == <<69, 82, 82, 79, 82, 32, 68, 105, 114, 101, 99, 116, 32, 109, 101, 115, 115, 97, 103, 101, 32, 109, 117, 115, 116, 32, 98, 101, 32, 97, 116, 32, 108, 101, 97, 115, 116, 32, 56, 32, 98, 121, 116, 101, 115, 32, 108, 111, 110, 103>>
\* "ERROR Direct message must have 2 arguments"
T_ERR_2ARGS == <<69, 82, 82, 79, 82, 32, 68, 105, 114, 101, 99, 116, 32, 109, 101, 115, 115, 97, 103, 101, 32, 109, 117, 115, 116, 32, 104, 97, 118, 101, 32, 50, 32, 97, 114, 103, 117, 109, 101, 110, 116, 115>>
\* "ERROR Direct message must start with a valid ID: "
T_ERR_VALID_ID == <<69, 82, 82, 79, 82, 32, 68, 105, 114, 101, 99, 116, 32, 109, 101, 115, 115, 97, 103, 101, 32, 109, 117, 115, 116, 32, 115, 116, 97, 114, 116, 32, 119, 105, 116, 104, 32, 97, 32, 118, 97, 108, 105, 100, 32, 73, 68, 58, 32>>
\* "ERROR no game with id "
T_ERR_NO_GAME_ == <<69, 82, 82, 79, 82, 32, 110, 111, 32, 103, 97, 109, 101, 32, 119, 105, 116, 104, 32, 105, 100, 32>>
\* " found"
T__FOUND == <<32, 102, 111, 117, 110, 100>>
\* "CANCELED Game where local player ID "
T_CANCELED_GAME_ == <<67, 65, 78, 67, 69, 76, 69, 68, 32, 71, 97, 109, 101, 32, 119, 104, 101, 114, 101, 32, 108, 111, 99, 97, 108, 32, 112, 108, 97, 121, 101, 114, 32, 73, 68, 32>>
\* " is trying to guess, does not exist. cancelling match"
T__GUESS_TAIL == <<32, 105, 115, 32, 116, 114, 121, 105, 110, 103, 32, 116, 111, 32, 103, 117, 101, 115, 115, 44, 32, 100, 111, 101, 115, 32, 110, 111, 116, 32, 101, 120, 105, 115, 116, 46, 32, 99, 97, 110, 99, 101, 108, 108, 105, 110, 103, 32, 109, 97, 116, 99, 104>>
\* " doesn't participate in a game, cannot terminate"
T__NO_PARTICIPATE == <<32, 100, 111, 101, 115, 110, 39, 116, 32, 112, 97, 114, 116, 105, 99, 105, 112, 97, 116, 101, 32, 105, 110, 32, 97, 32, 103, 97, 109, 101, 44, 32, 99, 97, 110, 110, 111, 116, 32, 116, 101, 114, 109, 105, 110, 97, 116, 101>>
\* "cannot parse integer from empty string"
T_PARSE_EMPTY == <<99, 97, 110, 110, 111, 116, 32, 112, 97, 114, 115, 101, 32, 105, 110, 116, 101, 103, 101, 114, 32, 102, 114, 111, 109, 32, 101, 109, 112, 116, 121, 32, 115, 116, 114, 105, 110, 103>>
\* "invalid digit found in string"
T_PARSE_INVALID == <<105, 110, 118, 97, 108, 105, 100, 32, 100, 105, 103, 105, 116, 32, 102, 111, 117, 110, 100, 32, 105, 110, 32, 115, 116, 114, 105, 110, 103>>
\* "number too large to fit in target type"
T_PARSE_OVERFLOW == <<110, 117, 109, 98, 101, 114, 32, 116, 111, 111, 32, 108, 97, 114, 103, 101, 32, 116, 111, 32, 102, 105, 116, 32, 105, 110, 32, 116, 97, 114, 103, 101, 116, 32, 116, 121, 112, 101>>
\* "dota2"
T_PASSWORD == <<100, 111, 116, 97, 50>>
\* "GET / HTTP/1.1"
T_GET == <<71, 69, 84, 32, 47, 32, 72, 84, 84, 80, 47, 49, 46, 49>>
\* "HTTP/1.1 200 OK\r\nContent-Type: text/html; charset=UTF-8\r\n\r\n<!DOCTYPE html><html><head><title>Server</title></head><body><h1>Server</h1><p>"
T_HTTP_HEAD == <<72, 84, 84, 80, 47, 49, 46, 49, 32, 50, 48, 48, 32, 79, 75, 13, 10, 67, 111, 110, 116, 101, 110, 116, 45, 84, 121, 112, 101, 58, 32, 116, 101, 120, 116, 47, 104, 116, 109, 108, 59, 32, 99, 104, 97, 114, 115, 101, 116, 61, 85, 84, 70, 45, 56, 13, 10, 13, 10, 60, 33, 68, 79, 67, 84, 89, 80, 69, 32, 104, 116, 109, 108, 62, 60, 104, 116, 109, 108, 62, 60, 104, 101, 97, 100, 62, 60, 116, 105, 116, 108, 101, 62, 83, 101, 114, 118, 101, 114, 60, 47, 116, 105, 116, 108, 101, 62, 60, 47, 104, 101, 97, 100, 62, 60, 98, 111, 100, 121, 62, 60, 104, 49, 62, 83, 101, 114, 118, 101, 114, 60, 47, 104, 49, 62, 60, 112, 62>>
\* "</p></body></html>"
T_HTTP_TAIL == <<60, 47, 112, 62, 60, 47, 98, 111, 100, 121, 62, 60, 47, 104, 116, 109, 108, 62>>
\* "Game {\n"
T_GAME_OPEN == <<71, 97, 109, 101, 32, 123, 10>>
\* "game_id"
T_F_GAME_ID == <<103, 97, 109, 101, 95, 105, 100>>
\* "host_id"
T_F_HOST_ID == <<104, 111, 115, 116, 95, 105, 100>>
\* "opponent_id"
T_F_OPPONENT_ID == <<111, 112, 112, 111, 110, 101, 110, 116, 95, 105, 100>>
\* "secret"
T_F_SECRET == <<115, 101, 99, 114, 101, 116>>
\* "attempts"
T_F_ATTEMPTS == <<97, 116, 116, 101, 109, 112, 116, 115>>
\* "last_guess"
T_F_LAST_GUESS == <<108, 97, 115, 116, 95, 103, 117, 101, 115, 115>>
\* "last_hint"
T_F_LAST_HINT == <<108, 97, 115, 116, 95, 104, 105, 110, 116>>
\* "game_state"
T_F_GAME_STATE == <<103, 97, 109, 101, 95, 115, 116, 97, 116, 101>>
\* "Victory"
T_VICTORY_NAME == <<86, 105, 99, 116, 111, 114, 121>>
\* "Defeat"
T_DEFEAT_NAME == <<68, 101, 102, 101, 97, 116>>
\* "Ongoing"
T_ONGOING_NAME == <<79, 110, 103, 111, 105, 110, 103>>
\* "ERROR: "
T_ERROR_ == <<69, 82, 82, 79, 82, 58, 32>>
\* "invalid utf-8 sequence of "
T_INVALID_UTF8_ == <<105, 110, 118, 97, 108, 105, 100, 32, 117, 116, 102, 45, 56, 32, 115, 101, 113, 117, 101, 110, 99, 101, 32, 111, 102, 32>>
\* " bytes from index "
T__BYTES_FROM_ == <<32, 98, 121, 116, 101, 115, 32, 102, 114, 111, 109, 32, 105, 110, 100, 101, 120, 32>>
\* "incomplete utf-8 byte sequence from index "
T_INCOMPLETE_UTF8_ == <<105, 110, 99, 111, 109, 112, 108, 101, 116, 101, 32, 117, 116, 102, 45, 56, 32, 98, 121, 116, 101, 32, 115, 101, 113, 117, 101, 110, 99, 101, 32, 102, 114, 111, 109, 32, 105, 110, 100, 101, 120, 32>>

(***************************************************************************)
(* Helpers on byte strings.                                                *)
(***************************************************************************)
None == -1   \* Option::None of an id

Min(S) == CHOOSE x \in S : \A y \in S : x <= y
Max(S) == CHOOSE x \in S : \A y \in S : x >= y

\* Iterator::max().unwrap_or(0) over a Vec<u64>
MaxOr0(seq) == IF Len(seq) = 0 THEN 0 ELSE Max({seq[i] : i \in 1..Len(seq)})

\* format!("{n}") of an unsigned integer
RECURSIVE Dec(_)
Dec(n) == IF n < 10 THEN <<48 + n>> ELSE Dec(n \div 10) \o <<48 + (n % 10)>>

\* the decimal digits of a followed by those of b, read as one number
RECURSIVE Pow10Above(_)
Pow10Above(b) == IF b < 10 THEN 10 ELSE 10 * Pow10Above(b \div 10)
ConcatDec(a, b) == a * Pow10Above(b) + b

to_uppercase_byte(b) == IF b \in 97..122 THEN b - 32 ELSE b
\* str::to_ascii_uppercase
to_ascii_uppercase(s) == [i \in 1..Len(s) |-> to_uppercase_byte(s[i])]

\* The chars of a str.  Text is UTF-8: char_at is the scalar value of the
\* character whose first byte is s[i], char_width the number of its bytes.
char_width(b) == IF b < 192 THEN 1 ELSE IF b < 224 THEN 2 ELSE IF b < 240 THEN 3 ELSE 4
ContAt(s, i) == IF i <= Len(s) THEN s[i] % 64 ELSE 0
char_at(s, i) ==
    LET b == s[i]
        w == char_width(b)
    IN  IF w = 1 THEN b
        ELSE IF w = 2 THEN ((b % 32) * 64) + ContAt(s, i + 1)
        ELSE IF w = 3
             THEN ((b % 16) * 4096) + (ContAt(s, i + 1) * 64) + ContAt(s, i + 2)
        ELSE ((b % 8) * 262144) + (ContAt(s, i + 1) * 4096)
             + (ContAt(s, i + 2) * 64) + ContAt(s, i + 3)
RECURSIVE chars(_, _)
chars(s, i) ==
    IF i > Len(s) THEN <<>>
    ELSE <<char_at(s, i)>> \o chars(s, i + char_width(s[i]))
\* char::encode_utf8
encode_utf8(c) ==
    IF c < 128 THEN <<c>>
    ELSE IF c < 2048 THEN <<192 + (c \div 64), 128 + (c % 64)>>
    ELSE IF c < 65536
         THEN <<224 + (c \div 4096), 128 + ((c \div 64) % 64), 128 + (c % 64)>>
    ELSE <<240 + (c \div 262144), 128 + ((c \div 4096) % 64),
           128 + ((c \div 64) % 64), 128 + (c % 64)>>
RECURSIVE encode_chars(_)
encode_chars(cs) ==
    IF cs = <<>> THEN <<>> ELSE encode_utf8(Head(cs)) \o encode_chars(Tail(cs))

\* whether the char c lies in one of the ranges <<first, last>> of a table
InRanges(c, table) ==
    \E k \in 1..Len(table) : c >= table[k][1] /\ c <= table[k][2]

\* The simple lowercase mappings of the Unicode Character Database (17.0),
\* as runs <<first, last, step, delta>>: every step-th char from first to
\* last maps to itself plus delta.
LOWERCASE_TABLE == <<
    <<65, 90, 1, 32>>, <<192, 214, 1, 32>>, <<216, 222, 1, 32>>, <<256, 302, 2, 1>>,
    <<306, 310, 2, 1>>, <<313, 327, 2, 1>>, <<330, 374, 2, 1>>, <<376, 376, 1, -121>>,
    <<377, 381, 2, 1>>, <<385, 385, 1, 210>>, <<386, 388, 2, 1>>, <<390, 390, 1, 206>>,
    <<391, 391, 1, 1>>, <<393, 394, 1, 205>>, <<395, 395, 1, 1>>, <<398, 398, 1, 79>>,
    <<399, 399, 1, 202>>, <<400, 400, 1, 203>>, <<401, 401, 1, 1>>, <<403, 403, 1, 205>>,
    <<404, 404, 1, 207>>, <<406, 406, 1, 211>>, <<407, 407, 1, 209>>, <<408, 408, 1, 1>>,
    <<412, 412, 1, 211>>, <<413, 413, 1, 213>>, <<415, 415, 1, 214>>, <<416, 420, 2, 1>>,
    <<422, 422, 1, 218>>, <<423, 423, 1, 1>>, <<425, 425, 1, 218>>, <<428, 428, 1, 1>>,
    <<430, 430, 1, 218>>, <<431, 431, 1, 1>>, <<433, 434, 1, 217>>, <<435, 437, 2, 1>>,
    <<439, 439, 1, 219>>, <<440, 440, 1, 1>>, <<444, 444, 1, 1>>, <<452, 452, 1, 2>>,
    <<453, 453, 1, 1>>, <<455, 455, 1, 2>>, <<456, 456, 1, 1>>, <<458, 458, 1, 2>>,
    <<459, 475, 2, 1>>, <<478, 494, 2, 1>>, <<497, 497, 1, 2>>, <<498, 500, 2, 1>>,
    <<502, 502, 1, -97>>, <<503, 503, 1, -56>>, <<504, 542, 2, 1>>, <<544, 544, 1, -130>>,
    <<546, 562, 2, 1>>, <<570, 570, 1, 10795>>, <<571, 571, 1, 1>>, <<573, 573, 1, -163>>,
    <<574, 574, 1, 10792>>, <<577, 577, 1, 1>>, <<579, 579, 1, -195>>, <<580, 580, 1, 69>>,
    <<581, 581, 1, 71>>, <<582, 590, 2, 1>>, <<880, 882, 2, 1>>, <<886, 886, 1, 1>>,
    <<895, 895, 1, 116>>, <<902, 902, 1, 38>>, <<904, 906, 1, 37>>, <<908, 908, 1, 64>>,
    <<910, 911, 1, 63>>, <<913, 929, 1, 32>>, <<931, 939, 1, 32>>, <<975, 975, 1, 8>>,
    <<984, 1006, 2, 1>>, <<1012, 1012, 1, -60>>, <<1015, 1015, 1, 1>>, <<1017, 1017, 1, -7>>,
    <<1018, 1018, 1, 1>>, <<1021, 1023, 1, -130>>, <<1024, 1039, 1, 80>>, <<1040, 1071, 1, 32>>,
    <<1120, 1152, 2, 1>>, <<1162, 1214, 2, 1>>, <<1216, 1216, 1, 15>>, <<1217, 1229, 2, 1>>,
    <<1232, 1326, 2, 1>>, <<1329, 1366, 1, 48>>, <<4256, 4293, 1, 7264>>, <<4295, 4295, 1, 7264>>,
    <<4301, 4301, 1, 7264>>, <<5024, 5103, 1, 38864>>, <<5104, 5109, 1, 8>>, <<7305, 7305, 1, 1>>,
    <<7312, 7354, 1, -3008>>, <<7357, 7359, 1, -3008>>, <<7680, 7828, 2, 1>>, <<7838, 7838, 1, -7615>>,
    <<7840, 7934, 2, 1>>, <<7944, 7951, 1, -8>>, <<7960, 7965, 1, -8>>, <<7976, 7983, 1, -8>>,
    <<7992, 7999, 1, -8>>, <<8008, 8013, 1, -8>>, <<8025, 8031, 2, -8>>, <<8040, 8047, 1, -8>>,
    <<8072, 8079, 1, -8>>, <<8088, 8095, 1, -8>>, <<8104, 8111, 1, -8>>, <<8120, 8121, 1, -8>>,
    <<8122, 8123, 1, -74>>, <<8124, 8124, 1, -9>>, <<8136, 8139, 1, -86>>, <<8140, 8140, 1, -9>>,
    <<8152, 8153, 1, -8>>, <<8154, 8155, 1, -100>>, <<8168, 8169, 1, -8>>, <<8170, 8171, 1, -112>>,
    <<8172, 8172, 1, -7>>, <<8184, 8185, 1, -128>>, <<8186, 8187, 1, -126>>, <<8188, 8188, 1, -9>>,
    <<8486, 8486, 1, -7517>>, <<8490, 8490, 1, -8383>>, <<8491, 8491, 1, -8262>>, <<8498, 8498, 1, 28>>,
    <<8544, 8559, 1, 16>>, <<8579, 8579, 1, 1>>, <<9398, 9423, 1, 26>>, <<11264, 11311, 1, 48>>,
    <<11360, 11360, 1, 1>>, <<11362, 11362, 1, -10743>>, <<11363, 11363, 1, -3814>>, <<11364, 11364, 1, -10727>>,
    <<11367, 11371, 2, 1>>, <<11373, 11373, 1, -10780>>, <<11374, 11374, 1, -10749>>, <<11375, 11375, 1, -10783>>,
    <<11376, 11376, 1, -10782>>, <<11378, 11378, 1, 1>>, <<11381, 11381, 1, 1>>, <<11390, 11391, 1, -10815>>,
    <<11392, 11490, 2, 1>>, <<11499, 11501, 2, 1>>, <<11506, 11506, 1, 1>>, <<42560, 42604, 2, 1>>,
    <<42624, 42650, 2, 1>>, <<42786, 42798, 2, 1>>, <<42802, 42862, 2, 1>>, <<42873, 42875, 2, 1>>,
    <<42877, 42877, 1, -35332>>, <<42878, 42886, 2, 1>>, <<42891, 42891, 1, 1>>, <<42893, 42893, 1, -42280>>,
    <<42896, 42898, 2, 1>>, <<42902, 42920, 2, 1>>, <<42922, 42922, 1, -42308>>, <<42923, 42923, 1, -42319>>,
    <<42924, 42924, 1, -42315>>, <<42925, 42925, 1, -42305>>, <<42926, 42926, 1, -42308>>, <<42928, 42928, 1, -42258>>,
    <<42929, 42929, 1, -42282>>, <<42930, 42930, 1, -42261>>, <<42931, 42931, 1, 928>>, <<42932, 42946, 2, 1>>,
    <<42948, 42948, 1, -48>>, <<42949, 42949, 1, -42307>>, <<42950, 42950, 1, -35384>>, <<42951, 42953, 2, 1>>,
    <<42955, 42955, 1, -42343>>, <<42956, 42970, 2, 1>>, <<42972, 42972, 1, -42561>>, <<42997, 42997, 1, 1>>,
    <<65313, 65338, 1, 32>>, <<66560, 66599, 1, 40>>, <<66736, 66771, 1, 40>>, <<66928, 66938, 1, 39>>,
    <<66940, 66954, 1, 39>>, <<66956, 66962, 1, 39>>, <<66964, 66965, 1, 39>>, <<68736, 68786, 1, 64>>,
    <<68944, 68965, 1, 32>>, <<71840, 71871, 1, 32>>, <<93760, 93791, 1, 32>>, <<93856, 93880, 1, 27>>,
    <<125184, 125217, 1, 34>> >>
\* the Cased property, as ranges <<first, last>>
CASED_TABLE == <<
    <<65, 90>>, <<97, 122>>, <<170, 170>>, <<181, 181>>, <<186, 186>>, <<192, 214>>,
    <<216, 246>>, <<248, 442>>, <<444, 447>>, <<452, 659>>, <<662, 696>>, <<704, 705>>,
    <<736, 740>>, <<837, 837>>, <<880, 883>>, <<886, 887>>, <<890, 893>>, <<895, 895>>,
    <<902, 902>>, <<904, 906>>, <<908, 908>>, <<910, 929>>, <<931, 1013>>, <<1015, 1153>>,
    <<1162, 1327>>, <<1329, 1366>>, <<1376, 1416>>, <<4256, 4293>>, <<4295, 4295>>, <<4301, 4301>>,
    <<4304, 4346>>, <<4348, 4351>>, <<5024, 5109>>, <<5112, 5117>>, <<7296, 7306>>, <<7312, 7354>>,
    <<7357, 7359>>, <<7424, 7615>>, <<7680, 7957>>, <<7960, 7965>>, <<7968, 8005>>, <<8008, 8013>>,
    <<8016, 8023>>, <<8025, 8025>>, <<8027, 8027>>, <<8029, 8029>>, <<8031, 8061>>, <<8064, 8116>>,
    <<8118, 8124>>, <<8126, 8126>>, <<8130, 8132>>, <<8134, 8140>>, <<8144, 8147>>, <<8150, 8155>>,
    <<8160, 8172>>, <<8178, 8180>>, <<8182, 8188>>, <<8305, 8305>>, <<8319, 8319>>, <<8336, 8348>>,
    <<8450, 8450>>, <<8455, 8455>>, <<8458, 8467>>, <<8469, 8469>>, <<8473, 8477>>, <<8484, 8484>>,
    <<8486, 8486>>, <<8488, 8488>>, <<8490, 8493>>, <<8495, 8500>>, <<8505, 8505>>, <<8508, 8511>>,
    <<8517, 8521>>, <<8526, 8526>>, <<8544, 8575>>, <<8579, 8580>>, <<9398, 9449>>, <<11264, 11492>>,
    <<11499, 11502>>, <<11506, 11507>>, <<11520, 11557>>, <<11559, 11559>>, <<11565, 11565>>, <<42560, 42605>>,
    <<42624, 42653>>, <<42786, 42887>>, <<42891, 42894>>, <<42896, 42972>>, <<42993, 42998>>, <<43000, 43002>>,
    <<43824, 43866>>, <<43868, 43881>>, <<43888, 43967>>, <<64256, 64262>>, <<64275, 64279>>, <<65313, 65338>>,
    <<65345, 65370>>, <<66560, 66639>>, <<66736, 66771>>, <<66776, 66811>>, <<66928, 66938>>, <<66940, 66954>>,
    <<66956, 66962>>, <<66964, 66965>>, <<66967, 66977>>, <<66979, 66993>>, <<66995, 67001>>, <<67003, 67004>>,
    <<67456, 67456>>, <<67459, 67461>>, <<67463, 67504>>, <<67506, 67514>>, <<68736, 68786>>, <<68800, 68850>>,
    <<68944, 68965>>, <<68976, 68997>>, <<71840, 71903>>, <<93760, 93823>>, <<93856, 93880>>, <<93883, 93907>>,
    <<119808, 119892>>, <<119894, 119964>>, <<119966, 119967>>, <<119970, 119970>>, <<119973, 119974>>, <<119977, 119980>>,
    <<119982, 119993>>, <<119995, 119995>>, <<119997, 120003>>, <<120005, 120069>>, <<120071, 120074>>, <<120077, 120084>>,
    <<120086, 120092>>, <<120094, 120121>>, <<120123, 120126>>, <<120128, 120132>>, <<120134, 120134>>, <<120138, 120144>>,
    <<120146, 120485>>, <<120488, 120512>>, <<120514, 120538>>, <<120540, 120570>>, <<120572, 120596>>, <<120598, 120628>>,
    <<120630, 120654>>, <<120656, 120686>>, <<120688, 120712>>, <<120714, 120744>>, <<120746, 120770>>, <<120772, 120779>>,
    <<122624, 122633>>, <<122635, 122654>>, <<122661, 122666>>, <<122928, 122989>>, <<125184, 125251>>, <<127280, 127305>>,
    <<127312, 127337>>, <<127344, 127369>> >>
\* the Case_Ignorable property, as ranges <<first, last>>
CASE_IGNORABLE_TABLE == <<
    <<39, 39>>, <<46, 46>>, <<58, 58>>, <<94, 94>>, <<96, 96>>, <<168, 168>>,
    <<173, 173>>, <<175, 175>>, <<180, 180>>, <<183, 184>>, <<688, 879>>, <<884, 885>>,
    <<890, 890>>, <<900, 901>>, <<903, 903>>, <<1155, 1161>>, <<1369, 1369>>, <<1375, 1375>>,
    <<1425, 1469>>, <<1471, 1471>>, <<1473, 1474>>, <<1476, 1477>>, <<1479, 1479>>, <<1524, 1524>>,
    <<1536, 1541>>, <<1552, 1562>>, <<1564, 1564>>, <<1600, 1600>>, <<1611, 1631>>, <<1648, 1648>>,
    <<1750, 1757>>, <<1759, 1768>>, <<1770, 1773>>, <<1807, 1807>>, <<1809, 1809>>, <<1840, 1866>>,
    <<1958, 1968>>, <<2027, 2037>>, <<2042, 2042>>, <<2045, 2045>>, <<2070, 2093>>, <<2137, 2139>>,
    <<2184, 2184>>, <<2192, 2193>>, <<2199, 2207>>, <<2249, 2306>>, <<2362, 2362>>, <<2364, 2364>>,
    <<2369, 2376>>, <<2381, 2381>>, <<2385, 2391>>, <<2402, 2403>>, <<2417, 2417>>, <<2433, 2433>>,
    <<2492, 2492>>, <<2497, 2500>>, <<2509, 2509>>, <<2530, 2531>>, <<2558, 2558>>, <<2561, 2562>>,
    <<2620, 2620>>, <<2625, 2626>>, <<2631, 2632>>, <<2635, 2637>>, <<2641, 2641>>, <<2672, 2673>>,
    <<2677, 2677>>, <<2689, 2690>>, <<2748, 2748>>, <<2753, 2757>>, <<2759, 2760>>, <<2765, 2765>>,
    <<2786, 2787>>, <<2810, 2815>>, <<2817, 2817>>, <<2876, 2876>>, <<2879, 2879>>, <<2881, 2884>>,
    <<2893, 2893>>, <<2901, 2902>>, <<2914, 2915>>, <<2946, 2946>>, <<3008, 3008>>, <<3021, 3021>>,
    <<3072, 3072>>, <<3076, 3076>>, <<3132, 3132>>, <<3134, 3136>>, <<3142, 3144>>, <<3146, 3149>>,
    <<3157, 3158>>, <<3170, 3171>>, <<3201, 3201>>, <<3260, 3260>>, <<3263, 3263>>, <<3270, 3270>>,
    <<3276, 3277>>, <<3298, 3299>>, <<3328, 3329>>, <<3387, 3388>>, <<3393, 3396>>, <<3405, 3405>>,
    <<3426, 3427>>, <<3457, 3457>>, <<3530, 3530>>, <<3538, 3540>>, <<3542, 3542>>, <<3633, 3633>>,
    <<3636, 3642>>, <<3654, 3662>>, <<3761, 3761>>, <<3764, 3772>>, <<3782, 3782>>, <<3784, 3790>>,
    <<3864, 3865>>, <<3893, 3893>>, <<3895, 3895>>, <<3897, 3897>>, <<3953, 3966>>, <<3968, 3972>>,
    <<3974, 3975>>, <<3981, 3991>>, <<3993, 4028>>, <<4038, 4038>>, <<4141, 4144>>, <<4146, 4151>>,
    <<4153, 4154>>, <<4157, 4158>>, <<4184, 4185>>, <<4190, 4192>>, <<4209, 4212>>, <<4226, 4226>>,
    <<4229, 4230>>, <<4237, 4237>>, <<4253, 4253>>, <<4348, 4348>>, <<4957, 4959>>, <<5906, 5908>>,
    <<5938, 5939>>, <<5970, 5971>>, <<6002, 6003>>, <<6068, 6069>>, <<6071, 6077>>, <<6086, 6086>>,
    <<6089, 6099>>, <<6103, 6103>>, <<6109, 6109>>, <<6155, 6159>>, <<6211, 6211>>, <<6277, 6278>>,
    <<6313, 6313>>, <<6432, 6434>>, <<6439, 6440>>, <<6450, 6450>>, <<6457, 6459>>, <<6679, 6680>>,
    <<6683, 6683>>, <<6742, 6742>>, <<6744, 6750>>, <<6752, 6752>>, <<6754, 6754>>, <<6757, 6764>>,
    <<6771, 6780>>, <<6783, 6783>>, <<6823, 6823>>, <<6832, 6877>>, <<6880, 6891>>, <<6912, 6915>>,
    <<6964, 6964>>, <<6966, 6970>>, <<6972, 6972>>, <<6978, 6978>>, <<7019, 7027>>, <<7040, 7041>>,
    <<7074, 7077>>, <<7080, 7081>>, <<7083, 7085>>, <<7142, 7142>>, <<7144, 7145>>, <<7149, 7149>>,
    <<7151, 7153>>, <<7212, 7219>>, <<7222, 7223>>, <<7288, 7293>>, <<7376, 7378>>, <<7380, 7392>>,
    <<7394, 7400>>, <<7405, 7405>>, <<7412, 7412>>, <<7416, 7417>>, <<7468, 7530>>, <<7544, 7544>>,
    <<7579, 7679>>, <<8125, 8125>>, <<8127, 8129>>, <<8141, 8143>>, <<8157, 8159>>, <<8173, 8175>>,
    <<8189, 8190>>, <<8203, 8207>>, <<8216, 8217>>, <<8228, 8228>>, <<8231, 8231>>, <<8234, 8238>>,
    <<8288, 8292>>, <<8294, 8303>>, <<8305, 8305>>, <<8319, 8319>>, <<8336, 8348>>, <<8400, 8432>>,
    <<11388, 11389>>, <<11503, 11505>>, <<11631, 11631>>, <<11647, 11647>>, <<11744, 11775>>, <<11823, 11823>>,
    <<12293, 12293>>, <<12330, 12333>>, <<12337, 12341>>, <<12347, 12347>>, <<12441, 12446>>, <<12540, 12542>>,
    <<40981, 40981>>, <<42232, 42237>>, <<42508, 42508>>, <<42607, 42610>>, <<42612, 42621>>, <<42623, 42623>>,
    <<42652, 42655>>, <<42736, 42737>>, <<42752, 42785>>, <<42864, 42864>>, <<42888, 42890>>, <<42993, 42996>>,
    <<43000, 43001>>, <<43010, 43010>>, <<43014, 43014>>, <<43019, 43019>>, <<43045, 43046>>, <<43052, 43052>>,
    <<43204, 43205>>, <<43232, 43249>>, <<43263, 43263>>, <<43302, 43309>>, <<43335, 43345>>, <<43392, 43394>>,
    <<43443, 43443>>, <<43446, 43449>>, <<43452, 43453>>, <<43471, 43471>>, <<43493, 43494>>, <<43561, 43566>>,
    <<43569, 43570>>, <<43573, 43574>>, <<43587, 43587>>, <<43596, 43596>>, <<43632, 43632>>, <<43644, 43644>>,
    <<43696, 43696>>, <<43698, 43700>>, <<43703, 43704>>, <<43710, 43711>>, <<43713, 43713>>, <<43741, 43741>>,
    <<43756, 43757>>, <<43763, 43764>>, <<43766, 43766>>, <<43867, 43871>>, <<43881, 43883>>, <<44005, 44005>>,
    <<44008, 44008>>, <<44013, 44013>>, <<64286, 64286>>, <<64434, 64450>>, <<65024, 65039>>, <<65043, 65043>>,
    <<65056, 65071>>, <<65106, 65106>>, <<65109, 65109>>, <<65279, 65279>>, <<65287, 65287>>, <<65294, 65294>>,
    <<65306, 65306>>, <<65342, 65342>>, <<65344, 65344>>, <<65392, 65392>>, <<65438, 65439>>, <<65507, 65507>>,
    <<65529, 65531>>, <<66045, 66045>>, <<66272, 66272>>, <<66422, 66426>>, <<67456, 67461>>, <<67463, 67504>>,
    <<67506, 67514>>, <<68097, 68099>>, <<68101, 68102>>, <<68108, 68111>>, <<68152, 68154>>, <<68159, 68159>>,
    <<68325, 68326>>, <<68900, 68903>>, <<68942, 68942>>, <<68969, 68973>>, <<68975, 68975>>, <<69291, 69292>>,
    <<69317, 69317>>, <<69370, 69375>>, <<69446, 69456>>, <<69506, 69509>>, <<69633, 69633>>, <<69688, 69702>>,
    <<69744, 69744>>, <<69747, 69748>>, <<69759, 69761>>, <<69811, 69814>>, <<69817, 69818>>, <<69821, 69821>>,
    <<69826, 69826>>, <<69837, 69837>>, <<69888, 69890>>, <<69927, 69931>>, <<69933, 69940>>, <<70003, 70003>>,
    <<70016, 70017>>, <<70070, 70078>>, <<70089, 70092>>, <<70095, 70095>>, <<70191, 70193>>, <<70196, 70196>>,
    <<70198, 70199>>, <<70206, 70206>>, <<70209, 70209>>, <<70367, 70367>>, <<70371, 70378>>, <<70400, 70401>>,
    <<70459, 70460>>, <<70464, 70464>>, <<70502, 70508>>, <<70512, 70516>>, <<70587, 70592>>, <<70606, 70606>>,
    <<70608, 70608>>, <<70610, 70610>>, <<70625, 70626>>, <<70712, 70719>>, <<70722, 70724>>, <<70726, 70726>>,
    <<70750, 70750>>, <<70835, 70840>>, <<70842, 70842>>, <<70847, 70848>>, <<70850, 70851>>, <<71090, 71093>>,
    <<71100, 71101>>, <<71103, 71104>>, <<71132, 71133>>, <<71219, 71226>>, <<71229, 71229>>, <<71231, 71232>>,
    <<71339, 71339>>, <<71341, 71341>>, <<71344, 71349>>, <<71351, 71351>>, <<71453, 71453>>, <<71455, 71455>>,
    <<71458, 71461>>, <<71463, 71467>>, <<71727, 71735>>, <<71737, 71738>>, <<71995, 71996>>, <<71998, 71998>>,
    <<72003, 72003>>, <<72148, 72151>>, <<72154, 72155>>, <<72160, 72160>>, <<72193, 72202>>, <<72243, 72248>>,
    <<72251, 72254>>, <<72263, 72263>>, <<72273, 72278>>, <<72281, 72283>>, <<72330, 72342>>, <<72344, 72345>>,
    <<72544, 72544>>, <<72546, 72548>>, <<72550, 72550>>, <<72752, 72758>>, <<72760, 72765>>, <<72767, 72767>>,
    <<72850, 72871>>, <<72874, 72880>>, <<72882, 72883>>, <<72885, 72886>>, <<73009, 73014>>, <<73018, 73018>>,
    <<73020, 73021>>, <<73023, 73029>>, <<73031, 73031>>, <<73104, 73105>>, <<73109, 73109>>, <<73111, 73111>>,
    <<73177, 73177>>, <<73459, 73460>>, <<73472, 73473>>, <<73526, 73530>>, <<73536, 73536>>, <<73538, 73538>>,
    <<73562, 73562>>, <<78896, 78912>>, <<78919, 78933>>, <<90398, 90409>>, <<90413, 90415>>, <<92912, 92916>>,
    <<92976, 92982>>, <<92992, 92995>>, <<93504, 93506>>, <<93547, 93548>>, <<94031, 94031>>, <<94095, 94111>>,
    <<94176, 94177>>, <<94179, 94180>>, <<94194, 94195>>, <<110576, 110579>>, <<110581, 110587>>, <<110589, 110590>>,
    <<113821, 113822>>, <<113824, 113827>>, <<118528, 118573>>, <<118576, 118598>>, <<119143, 119145>>, <<119155, 119170>>,
    <<119173, 119179>>, <<119210, 119213>>, <<119362, 119364>>, <<121344, 121398>>, <<121403, 121452>>, <<121461, 121461>>,
    <<121476, 121476>>, <<121499, 121503>>, <<121505, 121519>>, <<122880, 122886>>, <<122888, 122904>>, <<122907, 122913>>,
    <<122915, 122916>>, <<122918, 122922>>, <<122928, 122989>>, <<123023, 123023>>, <<123184, 123197>>, <<123566, 123566>>,
    <<123628, 123631>>, <<124139, 124143>>, <<124398, 124399>>, <<124643, 124643>>, <<124646, 124646>>, <<124654, 124655>>,
    <<124661, 124661>>, <<124671, 124671>>, <<125136, 125142>>, <<125252, 125259>>, <<127995, 127999>>, <<917505, 917505>>,
    <<917536, 917631>>, <<917760, 917999>> >>
Cased(c) == InRanges(c, CASED_TABLE)
Case_Ignorable(c) == InRanges(c, CASE_IGNORABLE_TABLE)

\* the Grapheme_Extend property, as ranges <<first, last>>
GRAPHEME_EXTEND_TABLE == <<
    <<768, 879>>, <<1155, 1161>>, <<1425, 1469>>, <<1471, 1471>>, <<1473, 1474>>, <<1476, 1477>>,
    <<1479, 1479>>, <<1552, 1562>>, <<1611, 1631>>, <<1648, 1648>>, <<1750, 1756>>, <<1759, 1764>>,
    <<1767, 1768>>, <<1770, 1773>>, <<1809, 1809>>, <<1840, 1866>>, <<1958, 1968>>, <<2027, 2035>>,
    <<2045, 2045>>, <<2070, 2073>>, <<2075, 2083>>, <<2085, 2087>>, <<2089, 2093>>, <<2137, 2139>>,
    <<2199, 2207>>, <<2250, 2273>>, <<2275, 2306>>, <<2362, 2362>>, <<2364, 2364>>, <<2369, 2376>>,
    <<2381, 2381>>, <<2385, 2391>>, <<2402, 2403>>, <<2433, 2433>>, <<2492, 2492>>, <<2494, 2494>>,
    <<2497, 2500>>, <<2509, 2509>>, <<2519, 2519>>, <<2530, 2531>>, <<2558, 2558>>, <<2561, 2562>>,
    <<2620, 2620>>, <<2625, 2626>>, <<2631, 2632>>, <<2635, 2637>>, <<2641, 2641>>, <<2672, 2673>>,
    <<2677, 2677>>, <<2689, 2690>>, <<2748, 2748>>, <<2753, 2757>>, <<2759, 2760>>, <<2765, 2765>>,
    <<2786, 2787>>, <<2810, 2815>>, <<2817, 2817>>, <<2876, 2876>>, <<2878, 2879>>, <<2881, 2884>>,
    <<2893, 2893>>, <<2901, 2903>>, <<2914, 2915>>, <<2946, 2946>>, <<3006, 3006>>, <<3008, 3008>>,
    <<3021, 3021>>, <<3031, 3031>>, <<3072, 3072>>, <<3076, 3076>>, <<3132, 3132>>, <<3134, 3136>>,
    <<3142, 3144>>, <<3146, 3149>>, <<3157, 3158>>, <<3170, 3171>>, <<3201, 3201>>, <<3260, 3260>>,
    <<3263, 3264>>, <<3266, 3266>>, <<3270, 3272>>, <<3274, 3277>>, <<3285, 3286>>, <<3298, 3299>>,
    <<3328, 3329>>, <<3387, 3388>>, <<3390, 3390>>, <<3393, 3396>>, <<3405, 3405>>, <<3415, 3415>>,
    <<3426, 3427>>, <<3457, 3457>>, <<3530, 3530>>, <<3535, 3535>>, <<3538, 3540>>, <<3542, 3542>>,
    <<3551, 3551>>, <<3633, 3633>>, <<3636, 3642>>, <<3655, 3662>>, <<3761, 3761>>, <<3764, 3772>>,
    <<3784, 3790>>, <<3864, 3865>>, <<3893, 3893>>, <<3895, 3895>>, <<3897, 3897>>, <<3953, 3966>>,
    <<3968, 3972>>, <<3974, 3975>>, <<3981, 3991>>, <<3993, 4028>>, <<4038, 4038>>, <<4141, 4144>>,
    <<4146, 4151>>, <<4153, 4154>>, <<4157, 4158>>, <<4184, 4185>>, <<4190, 4192>>, <<4209, 4212>>,
    <<4226, 4226>>, <<4229, 4230>>, <<4237, 4237>>, <<4253, 4253>>, <<4957, 4959>>, <<5906, 5909>>,
    <<5938, 5940>>, <<5970, 5971>>, <<6002, 6003>>, <<6068, 6069>>, <<6071, 6077>>, <<6086, 6086>>,
    <<6089, 6099>>, <<6109, 6109>>, <<6155, 6157>>, <<6159, 6159>>, <<6277, 6278>>, <<6313, 6313>>,
    <<6432, 6434>>, <<6439, 6440>>, <<6450, 6450>>, <<6457, 6459>>, <<6679, 6680>>, <<6683, 6683>>,
    <<6742, 6742>>, <<6744, 6750>>, <<6752, 6752>>, <<6754, 6754>>, <<6757, 6764>>, <<6771, 6780>>,
    <<6783, 6783>>, <<6832, 6877>>, <<6880, 6891>>, <<6912, 6915>>, <<6964, 6973>>, <<6978, 6980>>,
    <<7019, 7027>>, <<7040, 7041>>, <<7074, 7077>>, <<7080, 7085>>, <<7142, 7142>>, <<7144, 7145>>,
    <<7149, 7149>>, <<7151, 7155>>, <<7212, 7219>>, <<7222, 7223>>, <<7376, 7378>>, <<7380, 7392>>,
    <<7394, 7400>>, <<7405, 7405>>, <<7412, 7412>>, <<7416, 7417>>, <<7616, 7679>>, <<8204, 8204>>,
    <<8400, 8432>>, <<11503, 11505>>, <<11647, 11647>>, <<11744, 11775>>, <<12330, 12335>>, <<12441, 12442>>,
    <<42607, 42610>>, <<42612, 42621>>, <<42654, 42655>>, <<42736, 42737>>, <<43010, 43010>>, <<43014, 43014>>,
    <<43019, 43019>>, <<43045, 43046>>, <<43052, 43052>>, <<43204, 43205>>, <<43232, 43249>>, <<43263, 43263>>,
    <<43302, 43309>>, <<43335, 43345>>, <<43347, 43347>>, <<43392, 43394>>, <<43443, 43443>>, <<43446, 43449>>,
    <<43452, 43453>>, <<43456, 43456>>, <<43493, 43493>>, <<43561, 43566>>, <<43569, 43570>>, <<43573, 43574>>,
    <<43587, 43587>>, <<43596, 43596>>, <<43644, 43644>>, <<43696, 43696>>, <<43698, 43700>>, <<43703, 43704>>,
    <<43710, 43711>>, <<43713, 43713>>, <<43756, 43757>>, <<43766, 43766>>, <<44005, 44005>>, <<44008, 44008>>,
    <<44013, 44013>>, <<64286, 64286>>, <<65024, 65039>>, <<65056, 65071>>, <<65438, 65439>>, <<66045, 66045>>,
    <<66272, 66272>>, <<66422, 66426>>, <<68097, 68099>>, <<68101, 68102>>, <<68108, 68111>>, <<68152, 68154>>,
    <<68159, 68159>>, <<68325, 68326>>, <<68900, 68903>>, <<68969, 68973>>, <<69291, 69292>>, <<69370, 69375>>,
    <<69446, 69456>>, <<69506, 69509>>, <<69633, 69633>>, <<69688, 69702>>, <<69744, 69744>>, <<69747, 69748>>,
    <<69759, 69761>>, <<69811, 69814>>, <<69817, 69818>>, <<69826, 69826>>, <<69888, 69890>>, <<69927, 69931>>,
    <<69933, 69940>>, <<70003, 70003>>, <<70016, 70017>>, <<70070, 70078>>, <<70080, 70080>>, <<70089, 70092>>,
    <<70095, 70095>>, <<70191, 70193>>, <<70196, 70199>>, <<70206, 70206>>, <<70209, 70209>>, <<70367, 70367>>,
    <<70371, 70378>>, <<70400, 70401>>, <<70459, 70460>>, <<70462, 70462>>, <<70464, 70464>>, <<70477, 70477>>,
    <<70487, 70487>>, <<70502, 70508>>, <<70512, 70516>>, <<70584, 70584>>, <<70587, 70592>>, <<70594, 70594>>,
    <<70597, 70597>>, <<70599, 70601>>, <<70606, 70608>>, <<70610, 70610>>, <<70625, 70626>>, <<70712, 70719>>,
    <<70722, 70724>>, <<70726, 70726>>, <<70750, 70750>>, <<70832, 70832>>, <<70835, 70840>>, <<70842, 70842>>,
    <<70845, 70845>>, <<70847, 70848>>, <<70850, 70851>>, <<71087, 71087>>, <<71090, 71093>>, <<71100, 71101>>,
    <<71103, 71104>>, <<71132, 71133>>, <<71219, 71226>>, <<71229, 71229>>, <<71231, 71232>>, <<71339, 71339>>,
    <<71341, 71341>>, <<71344, 71351>>, <<71453, 71453>>, <<71455, 71455>>, <<71458, 71461>>, <<71463, 71467>>,
    <<71727, 71735>>, <<71737, 71738>>, <<71984, 71984>>, <<71995, 71998>>, <<72003, 72003>>, <<72148, 72151>>,
    <<72154, 72155>>, <<72160, 72160>>, <<72193, 72202>>, <<72243, 72248>>, <<72251, 72254>>, <<72263, 72263>>,
    <<72273, 72278>>, <<72281, 72283>>, <<72330, 72342>>, <<72344, 72345>>, <<72544, 72544>>, <<72546, 72548>>,
    <<72550, 72550>>, <<72752, 72758>>, <<72760, 72765>>, <<72767, 72767>>, <<72850, 72871>>, <<72874, 72880>>,
    <<72882, 72883>>, <<72885, 72886>>, <<73009, 73014>>, <<73018, 73018>>, <<73020, 73021>>, <<73023, 73029>>,
    <<73031, 73031>>, <<73104, 73105>>, <<73109, 73109>>, <<73111, 73111>>, <<73459, 73460>>, <<73472, 73473>>,
    <<73526, 73530>>, <<73536, 73538>>, <<73562, 73562>>, <<78912, 78912>>, <<78919, 78933>>, <<90398, 90409>>,
    <<90413, 90415>>, <<92912, 92916>>, <<92976, 92982>>, <<94031, 94031>>, <<94095, 94098>>, <<94180, 94180>>,
    <<94192, 94193>>, <<113821, 113822>>, <<118528, 118573>>, <<118576, 118598>>, <<119141, 119145>>, <<119149, 119154>>,
    <<119163, 119170>>, <<119173, 119179>>, <<119210, 119213>>, <<119362, 119364>>, <<121344, 121398>>, <<121403, 121452>>,
    <<121461, 121461>>, <<121476, 121476>>, <<121499, 121503>>, <<121505, 121519>>, <<122880, 122886>>, <<122888, 122904>>,
    <<122907, 122913>>, <<122915, 122916>>, <<122918, 122922>>, <<123023, 123023>>, <<123184, 123190>>, <<123566, 123566>>,
    <<123628, 123631>>, <<124140, 124143>>, <<124398, 124399>>, <<124643, 124643>>, <<124646, 124646>>, <<124654, 124655>>,
    <<124661, 124661>>, <<125136, 125142>>, <<125252, 125258>>, <<917536, 917631>>, <<917760, 917999>> >>
\* the chars that core::unicode::printable::is_printable refuses: those of
\* the general categories Cc, Cf, Cs, Co, Cn, Zl, Zp and Zs but the space,
\* as ranges <<first, last>>
NOT_PRINTABLE_TABLE == <<
    <<0, 31>>, <<127, 160>>, <<173, 173>>, <<888, 889>>, <<896, 899>>, <<907, 907>>,
    <<909, 909>>, <<930, 930>>, <<1328, 1328>>, <<1367, 1368>>, <<1419, 1420>>, <<1424, 1424>>,
    <<1480, 1487>>, <<1515, 1518>>, <<1525, 1541>>, <<1564, 1564>>, <<1757, 1757>>, <<1806, 1807>>,
    <<1867, 1868>>, <<1970, 1983>>, <<2043, 2044>>, <<2094, 2095>>, <<2111, 2111>>, <<2140, 2141>>,
    <<2143, 2143>>, <<2155, 2159>>, <<2192, 2198>>, <<2274, 2274>>, <<2436, 2436>>, <<2445, 2446>>,
    <<2449, 2450>>, <<2473, 2473>>, <<2481, 2481>>, <<2483, 2485>>, <<2490, 2491>>, <<2501, 2502>>,
    <<2505, 2506>>, <<2511, 2518>>, <<2520, 2523>>, <<2526, 2526>>, <<2532, 2533>>, <<2559, 2560>>,
    <<2564, 2564>>, <<2571, 2574>>, <<2577, 2578>>, <<2601, 2601>>, <<2609, 2609>>, <<2612, 2612>>,
    <<2615, 2615>>, <<2618, 2619>>, <<2621, 2621>>, <<2627, 2630>>, <<2633, 2634>>, <<2638, 2640>>,
    <<2642, 2648>>, <<2653, 2653>>, <<2655, 2661>>, <<2679, 2688>>, <<2692, 2692>>, <<2702, 2702>>,
    <<2706, 2706>>, <<2729, 2729>>, <<2737, 2737>>, <<2740, 2740>>, <<2746, 2747>>, <<2758, 2758>>,
    <<2762, 2762>>, <<2766, 2767>>, <<2769, 2783>>, <<2788, 2789>>, <<2802, 2808>>, <<2816, 2816>>,
    <<2820, 2820>>, <<2829, 2830>>, <<2833, 2834>>, <<2857, 2857>>, <<2865, 2865>>, <<2868, 2868>>,
    <<2874, 2875>>, <<2885, 2886>>, <<2889, 2890>>, <<2894, 2900>>, <<2904, 2907>>, <<2910, 2910>>,
    <<2916, 2917>>, <<2936, 2945>>, <<2948, 2948>>, <<2955, 2957>>, <<2961, 2961>>, <<2966, 2968>>,
    <<2971, 2971>>, <<2973, 2973>>, <<2976, 2978>>, <<2981, 2983>>, <<2987, 2989>>, <<3002, 3005>>,
    <<3011, 3013>>, <<3017, 3017>>, <<3022, 3023>>, <<3025, 3030>>, <<3032, 3045>>, <<3067, 3071>>,
    <<3085, 3085>>, <<3089, 3089>>, <<3113, 3113>>, <<3130, 3131>>, <<3141, 3141>>, <<3145, 3145>>,
    <<3150, 3156>>, <<3159, 3159>>, <<3163, 3163>>, <<3166, 3167>>, <<3172, 3173>>, <<3184, 3190>>,
    <<3213, 3213>>, <<3217, 3217>>, <<3241, 3241>>, <<3252, 3252>>, <<3258, 3259>>, <<3269, 3269>>,
    <<3273, 3273>>, <<3278, 3284>>, <<3287, 3291>>, <<3295, 3295>>, <<3300, 3301>>, <<3312, 3312>>,
    <<3316, 3327>>, <<3341, 3341>>, <<3345, 3345>>, <<3397, 3397>>, <<3401, 3401>>, <<3408, 3411>>,
    <<3428, 3429>>, <<3456, 3456>>, <<3460, 3460>>, <<3479, 3481>>, <<3506, 3506>>, <<3516, 3516>>,
    <<3518, 3519>>, <<3527, 3529>>, <<3531, 3534>>, <<3541, 3541>>, <<3543, 3543>>, <<3552, 3557>>,
    <<3568, 3569>>, <<3573, 3584>>, <<3643, 3646>>, <<3676, 3712>>, <<3715, 3715>>, <<3717, 3717>>,
    <<3723, 3723>>, <<3748, 3748>>, <<3750, 3750>>, <<3774, 3775>>, <<3781, 3781>>, <<3783, 3783>>,
    <<3791, 3791>>, <<3802, 3803>>, <<3808, 3839>>, <<3912, 3912>>, <<3949, 3952>>, <<3992, 3992>>,
    <<4029, 4029>>, <<4045, 4045>>, <<4059, 4095>>, <<4294, 4294>>, <<4296, 4300>>, <<4302, 4303>>,
    <<4681, 4681>>, <<4686, 4687>>, <<4695, 4695>>, <<4697, 4697>>, <<4702, 4703>>, <<4745, 4745>>,
    <<4750, 4751>>, <<4785, 4785>>, <<4790, 4791>>, <<4799, 4799>>, <<4801, 4801>>, <<4806, 4807>>,
    <<4823, 4823>>, <<4881, 4881>>, <<4886, 4887>>, <<4955, 4956>>, <<4989, 4991>>, <<5018, 5023>>,
    <<5110, 5111>>, <<5118, 5119>>, <<5760, 5760>>, <<5789, 5791>>, <<5881, 5887>>, <<5910, 5918>>,
    <<5943, 5951>>, <<5972, 5983>>, <<5997, 5997>>, <<6001, 6001>>, <<6004, 6015>>, <<6110, 6111>>,
    <<6122, 6127>>, <<6138, 6143>>, <<6158, 6158>>, <<6170, 6175>>, <<6265, 6271>>, <<6315, 6319>>,
    <<6390, 6399>>, <<6431, 6431>>, <<6444, 6447>>, <<6460, 6463>>, <<6465, 6467>>, <<6510, 6511>>,
    <<6517, 6527>>, <<6572, 6575>>, <<6602, 6607>>, <<6619, 6621>>, <<6684, 6685>>, <<6751, 6751>>,
    <<6781, 6782>>, <<6794, 6799>>, <<6810, 6815>>, <<6830, 6831>>, <<6878, 6879>>, <<6892, 6911>>,
    <<6989, 6989>>, <<7156, 7163>>, <<7224, 7226>>, <<7242, 7244>>, <<7307, 7311>>, <<7355, 7356>>,
    <<7368, 7375>>, <<7419, 7423>>, <<7958, 7959>>, <<7966, 7967>>, <<8006, 8007>>, <<8014, 8015>>,
    <<8024, 8024>>, <<8026, 8026>>, <<8028, 8028>>, <<8030, 8030>>, <<8062, 8063>>, <<8117, 8117>>,
    <<8133, 8133>>, <<8148, 8149>>, <<8156, 8156>>, <<8176, 8177>>, <<8181, 8181>>, <<8191, 8207>>,
    <<8232, 8239>>, <<8287, 8303>>, <<8306, 8307>>, <<8335, 8335>>, <<8349, 8351>>, <<8386, 8399>>,
    <<8433, 8447>>, <<8588, 8591>>, <<9258, 9279>>, <<9291, 9311>>, <<11124, 11125>>, <<11508, 11512>>,
    <<11558, 11558>>, <<11560, 11564>>, <<11566, 11567>>, <<11624, 11630>>, <<11633, 11646>>, <<11671, 11679>>,
    <<11687, 11687>>, <<11695, 11695>>, <<11703, 11703>>, <<11711, 11711>>, <<11719, 11719>>, <<11727, 11727>>,
    <<11735, 11735>>, <<11743, 11743>>, <<11870, 11903>>, <<11930, 11930>>, <<12020, 12031>>, <<12246, 12271>>,
    <<12288, 12288>>, <<12352, 12352>>, <<12439, 12440>>, <<12544, 12548>>, <<12592, 12592>>, <<12687, 12687>>,
    <<12774, 12782>>, <<12831, 12831>>, <<42125, 42127>>, <<42183, 42191>>, <<42540, 42559>>, <<42744, 42751>>,
    <<42973, 42992>>, <<43053, 43055>>, <<43066, 43071>>, <<43128, 43135>>, <<43206, 43213>>, <<43226, 43231>>,
    <<43348, 43358>>, <<43389, 43391>>, <<43470, 43470>>, <<43482, 43485>>, <<43519, 43519>>, <<43575, 43583>>,
    <<43598, 43599>>, <<43610, 43611>>, <<43715, 43738>>, <<43767, 43776>>, <<43783, 43784>>, <<43791, 43792>>,
    <<43799, 43807>>, <<43815, 43815>>, <<43823, 43823>>, <<43884, 43887>>, <<44014, 44015>>, <<44026, 44031>>,
    <<55204, 55215>>, <<55239, 55242>>, <<55292, 55295>>, <<57344, 63743>>, <<64110, 64111>>, <<64218, 64255>>,
    <<64263, 64274>>, <<64280, 64284>>, <<64311, 64311>>, <<64317, 64317>>, <<64319, 64319>>, <<64322, 64322>>,
    <<64325, 64325>>, <<64976, 65007>>, <<65050, 65055>>, <<65107, 65107>>, <<65127, 65127>>, <<65132, 65135>>,
    <<65141, 65141>>, <<65277, 65280>>, <<65471, 65473>>, <<65480, 65481>>, <<65488, 65489>>, <<65496, 65497>>,
    <<65501, 65503>>, <<65511, 65511>>, <<65519, 65531>>, <<65534, 65535>>, <<65548, 65548>>, <<65575, 65575>>,
    <<65595, 65595>>, <<65598, 65598>>, <<65614, 65615>>, <<65630, 65663>>, <<65787, 65791>>, <<65795, 65798>>,
    <<65844, 65846>>, <<65935, 65935>>, <<65949, 65951>>, <<65953, 65999>>, <<66046, 66175>>, <<66205, 66207>>,
    <<66257, 66271>>, <<66300, 66303>>, <<66340, 66348>>, <<66379, 66383>>, <<66427, 66431>>, <<66462, 66462>>,
    <<66500, 66503>>, <<66518, 66559>>, <<66718, 66719>>, <<66730, 66735>>, <<66772, 66775>>, <<66812, 66815>>,
    <<66856, 66863>>, <<66916, 66926>>, <<66939, 66939>>, <<66955, 66955>>, <<66963, 66963>>, <<66966, 66966>>,
    <<66978, 66978>>, <<66994, 66994>>, <<67002, 67002>>, <<67005, 67007>>, <<67060, 67071>>, <<67383, 67391>>,
    <<67414, 67423>>, <<67432, 67455>>, <<67462, 67462>>, <<67505, 67505>>, <<67515, 67583>>, <<67590, 67591>>,
    <<67593, 67593>>, <<67638, 67638>>, <<67641, 67643>>, <<67645, 67646>>, <<67670, 67670>>, <<67743, 67750>>,
    <<67760, 67807>>, <<67827, 67827>>, <<67830, 67834>>, <<67868, 67870>>, <<67898, 67902>>, <<67930, 67967>>,
    <<68024, 68027>>, <<68048, 68049>>, <<68100, 68100>>, <<68103, 68107>>, <<68116, 68116>>, <<68120, 68120>>,
    <<68150, 68151>>, <<68155, 68158>>, <<68169, 68175>>, <<68185, 68191>>, <<68256, 68287>>, <<68327, 68330>>,
    <<68343, 68351>>, <<68406, 68408>>, <<68438, 68439>>, <<68467, 68471>>, <<68498, 68504>>, <<68509, 68520>>,
    <<68528, 68607>>, <<68681, 68735>>, <<68787, 68799>>, <<68851, 68857>>, <<68904, 68911>>, <<68922, 68927>>,
    <<68966, 68968>>, <<68998, 69005>>, <<69008, 69215>>, <<69247, 69247>>, <<69290, 69290>>, <<69294, 69295>>,
    <<69298, 69313>>, <<69320, 69327>>, <<69337, 69369>>, <<69416, 69423>>, <<69466, 69487>>, <<69514, 69551>>,
    <<69580, 69599>>, <<69623, 69631>>, <<69710, 69713>>, <<69750, 69758>>, <<69821, 69821>>, <<69827, 69839>>,
    <<69865, 69871>>, <<69882, 69887>>, <<69941, 69941>>, <<69960, 69967>>, <<70007, 70015>>, <<70112, 70112>>,
    <<70133, 70143>>, <<70162, 70162>>, <<70210, 70271>>, <<70279, 70279>>, <<70281, 70281>>, <<70286, 70286>>,
    <<70302, 70302>>, <<70314, 70319>>, <<70379, 70383>>, <<70394, 70399>>, <<70404, 70404>>, <<70413, 70414>>,
    <<70417, 70418>>, <<70441, 70441>>, <<70449, 70449>>, <<70452, 70452>>, <<70458, 70458>>, <<70469, 70470>>,
    <<70473, 70474>>, <<70478, 70479>>, <<70481, 70486>>, <<70488, 70492>>, <<70500, 70501>>, <<70509, 70511>>,
    <<70517, 70527>>, <<70538, 70538>>, <<70540, 70541>>, <<70543, 70543>>, <<70582, 70582>>, <<70593, 70593>>,
    <<70595, 70596>>, <<70598, 70598>>, <<70603, 70603>>, <<70614, 70614>>, <<70617, 70624>>, <<70627, 70655>>,
    <<70748, 70748>>, <<70754, 70783>>, <<70856, 70863>>, <<70874, 71039>>, <<71094, 71095>>, <<71134, 71167>>,
    <<71237, 71247>>, <<71258, 71263>>, <<71277, 71295>>, <<71354, 71359>>, <<71370, 71375>>, <<71396, 71423>>,
    <<71451, 71452>>, <<71468, 71471>>, <<71495, 71679>>, <<71740, 71839>>, <<71923, 71934>>, <<71943, 71944>>,
    <<71946, 71947>>, <<71956, 71956>>, <<71959, 71959>>, <<71990, 71990>>, <<71993, 71994>>, <<72007, 72015>>,
    <<72026, 72095>>, <<72104, 72105>>, <<72152, 72153>>, <<72165, 72191>>, <<72264, 72271>>, <<72355, 72367>>,
    <<72441, 72447>>, <<72458, 72543>>, <<72552, 72639>>, <<72674, 72687>>, <<72698, 72703>>, <<72713, 72713>>,
    <<72759, 72759>>, <<72774, 72783>>, <<72813, 72815>>, <<72848, 72849>>, <<72872, 72872>>, <<72887, 72959>>,
    <<72967, 72967>>, <<72970, 72970>>, <<73015, 73017>>, <<73019, 73019>>, <<73022, 73022>>, <<73032, 73039>>,
    <<73050, 73055>>, <<73062, 73062>>, <<73065, 73065>>, <<73103, 73103>>, <<73106, 73106>>, <<73113, 73119>>,
    <<73130, 73135>>, <<73180, 73183>>, <<73194, 73439>>, <<73465, 73471>>, <<73489, 73489>>, <<73531, 73533>>,
    <<73563, 73647>>, <<73649, 73663>>, <<73714, 73726>>, <<74650, 74751>>, <<74863, 74863>>, <<74869, 74879>>,
    <<75076, 77711>>, <<77811, 77823>>, <<78896, 78911>>, <<78934, 78943>>, <<82939, 82943>>, <<83527, 90367>>,
    <<90426, 92159>>, <<92729, 92735>>, <<92767, 92767>>, <<92778, 92781>>, <<92863, 92863>>, <<92874, 92879>>,
    <<92910, 92911>>, <<92918, 92927>>, <<92998, 93007>>, <<93018, 93018>>, <<93026, 93026>>, <<93048, 93052>>,
    <<93072, 93503>>, <<93562, 93759>>, <<93851, 93855>>, <<93881, 93882>>, <<93908, 93951>>, <<94027, 94030>>,
    <<94088, 94094>>, <<94112, 94175>>, <<94181, 94191>>, <<94199, 94207>>, <<101590, 101630>>, <<101663, 101759>>,
    <<101875, 110575>>, <<110580, 110580>>, <<110588, 110588>>, <<110591, 110591>>, <<110883, 110897>>, <<110899, 110927>>,
    <<110931, 110932>>, <<110934, 110947>>, <<110952, 110959>>, <<111356, 113663>>, <<113771, 113775>>, <<113789, 113791>>,
    <<113801, 113807>>, <<113818, 113819>>, <<113824, 117759>>, <<118013, 118015>>, <<118452, 118457>>, <<118481, 118495>>,
    <<118513, 118527>>, <<118574, 118575>>, <<118599, 118607>>, <<118724, 118783>>, <<119030, 119039>>, <<119079, 119080>>,
    <<119155, 119162>>, <<119275, 119295>>, <<119366, 119487>>, <<119508, 119519>>, <<119540, 119551>>, <<119639, 119647>>,
    <<119673, 119807>>, <<119893, 119893>>, <<119965, 119965>>, <<119968, 119969>>, <<119971, 119972>>, <<119975, 119976>>,
    <<119981, 119981>>, <<119994, 119994>>, <<119996, 119996>>, <<120004, 120004>>, <<120070, 120070>>, <<120075, 120076>>,
    <<120085, 120085>>, <<120093, 120093>>, <<120122, 120122>>, <<120127, 120127>>, <<120133, 120133>>, <<120135, 120137>>,
    <<120145, 120145>>, <<120486, 120487>>, <<120780, 120781>>, <<121484, 121498>>, <<121504, 121504>>, <<121520, 122623>>,
    <<122655, 122660>>, <<122667, 122879>>, <<122887, 122887>>, <<122905, 122906>>, <<122914, 122914>>, <<122917, 122917>>,
    <<122923, 122927>>, <<122990, 123022>>, <<123024, 123135>>, <<123181, 123183>>, <<123198, 123199>>, <<123210, 123213>>,
    <<123216, 123535>>, <<123567, 123583>>, <<123642, 123646>>, <<123648, 124111>>, <<124154, 124367>>, <<124411, 124414>>,
    <<124416, 124607>>, <<124639, 124639>>, <<124662, 124669>>, <<124672, 124895>>, <<124903, 124903>>, <<124908, 124908>>,
    <<124911, 124911>>, <<124927, 124927>>, <<125125, 125126>>, <<125143, 125183>>, <<125260, 125263>>, <<125274, 125277>>,
    <<125280, 126064>>, <<126133, 126208>>, <<126270, 126463>>, <<126468, 126468>>, <<126496, 126496>>, <<126499, 126499>>,
    <<126501, 126502>>, <<126504, 126504>>, <<126515, 126515>>, <<126520, 126520>>, <<126522, 126522>>, <<126524, 126529>>,
    <<126531, 126534>>, <<126536, 126536>>, <<126538, 126538>>, <<126540, 126540>>, <<126544, 126544>>, <<126547, 126547>>,
    <<126549, 126550>>, <<126552, 126552>>, <<126554, 126554>>, <<126556, 126556>>, <<126558, 126558>>, <<126560, 126560>>,
    <<126563, 126563>>, <<126565, 126566>>, <<126571, 126571>>, <<126579, 126579>>, <<126584, 126584>>, <<126589, 126589>>,
    <<126591, 126591>>, <<126602, 126602>>, <<126620, 126624>>, <<126628, 126628>>, <<126634, 126634>>, <<126652, 126703>>,
    <<126706, 126975>>, <<127020, 127023>>, <<127124, 127135>>, <<127151, 127152>>, <<127168, 127168>>, <<127184, 127184>>,
    <<127222, 127231>>, <<127406, 127461>>, <<127491, 127503>>, <<127548, 127551>>, <<127561, 127567>>, <<127570, 127583>>,
    <<127590, 127743>>, <<128729, 128731>>, <<128749, 128751>>, <<128765, 128767>>, <<128986, 128991>>, <<129004, 129007>>,
    <<129009, 129023>>, <<129036, 129039>>, <<129096, 129103>>, <<129114, 129119>>, <<129160, 129167>>, <<129198, 129199>>,
    <<129212, 129215>>, <<129218, 129231>>, <<129241, 129279>>, <<129624, 129631>>, <<129646, 129647>>, <<129661, 129663>>,
    <<129675, 129677>>, <<129735, 129735>>, <<129737, 129740>>, <<129757, 129758>>, <<129771, 129774>>, <<129785, 129791>>,
    <<129939, 129939>>, <<130043, 131071>>, <<173792, 173823>>, <<178206, 178207>>, <<183982, 183983>>, <<191457, 191471>>,
    <<192094, 194559>>, <<195102, 196607>>, <<201547, 201551>>, <<210042, 917759>>, <<918000, 1114111>> >>
\* char::is_grapheme_extended
is_grapheme_extended(c) == c > 767 /\ InRanges(c, GRAPHEME_EXTEND_TABLE)
\* core::unicode::printable::is_printable, with its fast path for ASCII
is_printable(c) ==
    IF c < 32 THEN FALSE
    ELSE IF c < 127 THEN TRUE
    ELSE ~InRanges(c, NOT_PRINTABLE_TABLE)

\* char::to_lowercase: one char, or "i" and a combining dot for U+0130.
\* RunDelta is the delta of the run of the table that holds c, 0 when no run
\* holds it.
RunDelta(c, table) ==
    LET R == {k \in 1..Len(table) :
                /\ c >= table[k][1]
                /\ c <= table[k][2]
                /\ (c - table[k][1]) % table[k][3] = 0}
    IN  IF R = {} THEN 0 ELSE table[CHOOSE k \in R : TRUE][4]
char_to_lowercase(c) ==
    IF c < 128 THEN <<(IF c \in 65..90 THEN c + 32 ELSE c)>>
    ELSE IF c = 304 THEN <<105, 775>>
    ELSE <<c + RunDelta(c, LOWERCASE_TABLE)>>

\* str::to_lowercase's map_uppercase_sigma: U+03A3 becomes the final sigma
\* U+03C2 when the first char before it that is not Case_Ignorable is
\* Cased and the first such char after it is not, else U+03C3
case_ignorable_then_cased(cs, from, to, forward) ==
    LET J == {j \in from..to : ~Case_Ignorable(cs[j])}
    IN  J # {} /\ Cased(cs[IF forward THEN Min(J) ELSE Max(J)])
map_uppercase_sigma(cs, i) ==
    IF /\ case_ignorable_then_cased(cs, 1, i - 1, FALSE)
       /\ ~case_ignorable_then_cased(cs, i + 1, Len(cs), TRUE)
    THEN 962 ELSE 963

\* str::to_lowercase
RECURSIVE LowerFrom(_, _)
LowerFrom(cs, i) ==
    IF i > Len(cs) THEN <<>>
    ELSE (IF cs[i] = 931 THEN <<map_uppercase_sigma(cs, i)>>
          ELSE char_to_lowercase(cs[i])) \o LowerFrom(cs, i + 1)
to_lowercase(s) == encode_chars(LowerFrom(chars(s, 1), 1))

\* char::is_whitespace: the White_Space property
IsWhitespace(c) ==
    \/ c \in 9..13
    \/ c \in {32, 133, 160, 5760, 8232, 8233, 8239, 8287, 12288}
    \/ c \in 8192..8202

\* str::split_whitespace().collect::<Vec<&str>>(): the maximal runs of
\* chars that are not whitespace
RECURSIVE SplitFrom(_, _, _)
SplitFrom(s, i, cur) ==
    IF i > Len(s) THEN (IF cur = <<>> THEN <<>> ELSE <<cur>>)
    ELSE IF IsWhitespace(char_at(s, i))
         THEN (IF cur = <<>> THEN <<>> ELSE <<cur>>)
              \o SplitFrom(s, i + char_width(s[i]), <<>>)
    ELSE IF s[i] < 128 THEN SplitFrom(s, i + 1, Append(cur, s[i]))
    ELSE SplitFrom(s, i + char_width(s[i]),
                   cur \o SubSeq(s, i, Min({i + char_width(s[i]) - 1, Len(s)})))
split_whitespace(s) == SplitFrom(s, 1, <<>>)

\* std::str::from_utf8: run_utf8_validation from byte i on.  On an error,
\* valid_up_to is the offset of the character that fails and error_len the
\* number of its bytes that are rejected, None when the input ends inside
\* the character.
IsCont(b) == b \in 128..191
Utf8Error(i, n) == [ok |-> FALSE, valid_up_to |-> i - 1, error_len |-> n]
\* the second byte that may follow the first byte b of a 3- or 4-byte character
SecondOk(b, c) ==
    \/ b = 224 /\ c \in 160..191
    \/ b \in 225..236 /\ IsCont(c)
    \/ b = 237 /\ c \in 128..159
    \/ b \in 238..239 /\ IsCont(c)
    \/ b = 240 /\ c \in 144..191
    \/ b \in 241..243 /\ IsCont(c)
    \/ b = 244 /\ c \in 128..143
RECURSIVE run_utf8_validation(_, _)
run_utf8_validation(s, i) ==
    IF i > Len(s) THEN [ok |-> TRUE, valid_up_to |-> Len(s), error_len |-> None]
    ELSE LET b == s[i]
             has(k) == i + k <= Len(s)
             \* the bytes from i on that are not ASCII
             N == {j \in i..Len(s) : s[j] >= 128}
         IN  \* ASCII bytes are skipped up to the next byte that is not
             IF b < 128
             THEN IF N = {}
                  THEN [ok |-> TRUE, valid_up_to |-> Len(s), error_len |-> None]
                  ELSE run_utf8_validation(s, Min(N))
             ELSE IF b \in 194..223
                  THEN IF ~has(1) THEN Utf8Error(i, None)
                       ELSE IF ~IsCont(s[i + 1]) THEN Utf8Error(i, 1)
                       ELSE run_utf8_validation(s, i + 2)
             ELSE IF b \in 224..239
                  THEN IF ~has(1) THEN Utf8Error(i, None)
                       ELSE IF ~SecondOk(b, s[i + 1]) THEN Utf8Error(i, 1)
                       ELSE IF ~has(2) THEN Utf8Error(i, None)
                       ELSE IF ~IsCont(s[i + 2]) THEN Utf8Error(i, 2)
                       ELSE run_utf8_validation(s, i + 3)
             ELSE IF b \in 240..244
                  THEN IF ~has(1) THEN Utf8Error(i, None)
                       ELSE IF ~SecondOk(b, s[i + 1]) THEN Utf8Error(i, 1)
                       ELSE IF ~has(2) THEN Utf8Error(i, None)
                       ELSE IF ~IsCont(s[i + 2]) THEN Utf8Error(i, 2)
                       ELSE IF ~has(3) THEN Utf8Error(i, None)
                       ELSE IF ~IsCont(s[i + 3]) THEN Utf8Error(i, 3)
                       ELSE run_utf8_validation(s, i + 4)
             ELSE Utf8Error(i, 1)
IsUtf8(s) == run_utf8_validation(s, 1).ok

\* format!("ERROR: {}", err) of the FromUtf8Error of bytes that are not UTF-8
utf8_error_text(s) ==
    LET e == run_utf8_validation(s, 1)
    IN  T_ERROR_ \o (IF e.error_len = None
                     THEN T_INCOMPLETE_UTF8_ \o Dec(e.valid_up_to)
                     ELSE T_INVALID_UTF8_ \o Dec(e.error_len) \o T__BYTES_FROM_
                          \o Dec(e.valid_up_to))

\* str::parse::<u64>(): an optional '+', then one or more decimal digits,
\* accumulated left to right with checked_mul and checked_add.  The first
\* byte that is no digit gives InvalidDigit, unless the digits before it
\* already exceed u64::MAX, which gives PosOverflow.  The value of a token
\* that parses is computed in the integers of the checker, which hold the
\* ids of the model's inputs.
IsDigit(b) == b \in 48..57
\* "18446744073709551615", the digits of u64::MAX
U64_MAX_DIGITS == <<49, 56, 52, 52, 54, 55, 52, 52, 48, 55, 51, 55, 48, 57, 53, 53, 49, 54, 49, 53>>
RECURSIVE StripZeros(_)
StripZeros(s) == IF s # <<>> /\ Head(s) = 48 THEN StripZeros(Tail(s)) ELSE s
\* whether the number written by the digits s is above u64::MAX
ExceedsU64(s) ==
    LET d == StripZeros(s)
        n == Len(U64_MAX_DIGITS)
        D == {i \in 1..n : d[i] # U64_MAX_DIGITS[i]}
    IN  IF Len(d) # n THEN Len(d) > n
        ELSE D # {} /\ LET i == CHOOSE x \in D : \A y \in D : x <= y
                       IN  d[i] > U64_MAX_DIGITS[i]
RECURSIVE DigitsValue(_, _)
DigitsValue(s, acc) ==
    IF s = <<>> THEN acc ELSE DigitsValue(Tail(s), acc * 10 + (Head(s) - 48))
parse_u64(tok) ==
    LET body == IF tok # <<>> /\ Head(tok) = 43 THEN Tail(tok) ELSE tok
        Bad == {i \in 1..Len(body) : ~IsDigit(body[i])}
        digits == IF Bad = {} THEN body
                  ELSE SubSeq(body, 1, (CHOOSE x \in Bad : \A y \in Bad : x <= y) - 1)
    IN  IF tok = <<>> THEN [ok |-> FALSE, value |-> 0, err |-> T_PARSE_EMPTY]
        ELSE IF body = <<>>
             THEN [ok |-> FALSE, value |-> 0, err |-> T_PARSE_INVALID]
        \* at most 16 digits cannot overflow: no checks are made
        ELSE IF Len(body) <= 16
             THEN IF \E i \in 1..Len(body) : ~IsDigit(body[i])
                  THEN [ok |-> FALSE, value |-> 0, err |-> T_PARSE_INVALID]
                  ELSE [ok |-> TRUE, value |-> DigitsValue(body, 0), err |-> <<>>]
        ELSE IF ExceedsU64(digits)
             THEN [ok |-> FALSE, value |-> 0, err |-> T_PARSE_OVERFLOW]
        ELSE IF Bad # {}
             THEN [ok |-> FALSE, value |-> 0, err |-> T_PARSE_INVALID]
             ELSE [ok |-> TRUE, value |-> DigitsValue(body, 0), err |-> <<>>]

\* format!("{:?}", v) of a Vec<u64>
RECURSIVE DebugItems(_)
DebugItems(v) ==
    IF v = <<>> THEN <<>>
    ELSE IF Len(v) = 1 THEN Dec(v[1])
    ELSE Dec(v[1]) \o <<44, 32>> \o DebugItems(Tail(v))
DebugVec(v) == <<91>> \o DebugItems(v) \o <<93>>

\* format!("{:x}") of an unsigned integer
RECURSIVE Hex(_)
Hex(n) ==
    LET d == n % 16
        digit == IF d < 10 THEN 48 + d ELSE 87 + d
    IN  IF n < 16 THEN <<digit>> ELSE Hex(n \div 16) \o <<digit>>

\* char::escape_debug_ext as <str as Debug>::fmt calls it: the double quote
\* and the chars of Grapheme_Extend are escaped, the single quote is not
escape_unicode(c) == <<92, 117, 123>> \o Hex(c) \o <<125>>
escape_debug_ext(c) ==
    IF c = 0 THEN <<92, 48>>
    ELSE IF c = 9 THEN <<92, 116>>
    ELSE IF c = 13 THEN <<92, 114>>
    ELSE IF c = 10 THEN <<92, 110>>
    ELSE IF c = 92 THEN <<92, 92>>
    ELSE IF c = 34 THEN <<92, 34>>
    ELSE IF is_grapheme_extended(c) THEN escape_unicode(c)
    ELSE IF is_printable(c) THEN encode_utf8(c)
    ELSE escape_unicode(c)
RECURSIVE escape_chars(_)
escape_chars(cs) ==
    IF cs = <<>> THEN <<>>
    ELSE escape_debug_ext(Head(cs)) \o escape_chars(Tail(cs))
\* format!("{:?}") of a String
DebugStr(s) == <<34>> \o escape_chars(chars(s, 1)) \o <<34>>

\* format!("{:#?}") of a Vec<Game>: "[]" when empty, else one derived Debug
\* of a Game per entry, indented by four spaces and followed by a comma
Indent(n) == [i \in 1..n |-> 32]
DebugState(state) ==
    IF state = Victory THEN T_VICTORY_NAME
    ELSE IF state = Defeat THEN T_DEFEAT_NAME
    ELSE T_ONGOING_NAME
DebugField(name, value) == Indent(8) \o name \o <<58, 32>> \o value \o <<44, 10>>
DebugGame(g) ==
    Indent(4) \o T_GAME_OPEN
    \o DebugField(T_F_GAME_ID, Dec(g.game_id))
    \o DebugField(T_F_HOST_ID, Dec(g.host_id))
    \o DebugField(T_F_OPPONENT_ID, Dec(g.opponent_id))
    \o DebugField(T_F_SECRET, DebugStr(g.secret))
    \o DebugField(T_F_ATTEMPTS, Dec(g.attempts))
    \o DebugField(T_F_LAST_GUESS, DebugStr(g.last_guess))
    \o DebugField(T_F_LAST_HINT, DebugStr(g.last_hint))
    \o DebugField(T_F_GAME_STATE, DebugState(g.game_state))
    \o Indent(4) \o <<125, 44, 10>>
RECURSIVE DebugGames(_)
DebugGames(games) ==
    IF games = <<>> THEN <<>> ELSE DebugGame(Head(games)) \o DebugGames(Tail(games))
DebugGamesPretty(games) ==
    IF games = <<>> THEN <<91, 93>>
    ELSE <<91, 10>> \o DebugGames(games) \o <<93>>

(***************************************************************************)
(* binary_message.rs: BinaryMessage and its codec.                         *)
(***************************************************************************)
BinaryMessage(len, type, bytes) ==
    [length |-> len, message_type |-> type, message |-> bytes]

\* BinaryMessage::default
default_message == BinaryMessage(0, MT_Unknown, <<>>)

\* text.len() as u16
as_u16(n) == n % U16_MOD

new_message(text) == BinaryMessage(as_u16(Len(text)), MT_Message, text)
new_command(text) == BinaryMessage(as_u16(Len(text)), MT_Command, text)

\* serialize with the length in little-endian order
serialize_le(m) ==
    <<m.length % 256, m.length \div 256, m.message_type>> \o m.message

\* u16::to_be_bytes, the type tag, the payload
serialize(m) ==
    <<m.length \div 256, m.length % 256, m.message_type>> \o m.message

type_of_tag(t) == IF t = 1 THEN MT_Command ELSE IF t = 2 THEN MT_Message ELSE MT_Unknown

\* BinaryMessage::deserialize on a buffer of `cap` bytes whose first Len(data)
\* bytes are `data` and whose other bytes are zero.  The slice
\* message[3..length + 3] panics when it ends past the buffer.
BufAt(data, i) == IF i <= Len(data) THEN data[i] ELSE 0
deserialize_buf(data, cap) ==
    IF cap < 3
    THEN [panic |-> FALSE, msg |-> BinaryMessage(0, MT_Unknown, <<>>)]
    ELSE LET length == BufAt(data, 1) * 256 + BufAt(data, 2)
             type == type_of_tag(BufAt(data, 3))
         IN  IF length > 0
             THEN IF length + 3 > cap
                  THEN [panic |-> TRUE, msg |-> default_message]
                  ELSE [panic |-> FALSE,
                        msg |-> BinaryMessage(length, type,
                                    [i \in 1..length |-> BufAt(data, 3 + i)])]
             ELSE [panic |-> FALSE, msg |-> BinaryMessage(length, type, <<>>)]
deserialize(message) == deserialize_buf(message, Len(message))

\* BinaryMessage::split: the command name and the bytes after the first
\* space.  `checks` is the build's overflow-checks setting: the sum
\* space_index as u16 + 1 of a u16 of 65535 panics with it and wraps to 0
\* without it.  The slice message[space_index + 1..length] panics when it
\* starts past its end or ends past the message.
FirstSpace(bytes) ==
    LET S == {i \in 1..Len(bytes) : bytes[i] = 32}
    IN  IF S = {} THEN 0 ELSE Min(S)
SplitErr == [panic |-> FALSE, ok |-> FALSE, command |-> <<>>, arguments |-> <<>>]
SplitPanic == [panic |-> TRUE, ok |-> FALSE, command |-> <<>>, arguments |-> <<>>]
SplitOk(command, arguments) ==
    [panic |-> FALSE, ok |-> TRUE, command |-> command, arguments |-> arguments]
split(m, checks) ==
    LET sp == FirstSpace(m.message)   \* 1-based; space_index = sp - 1
        index == as_u16(sp - 1)
        command == SubSeq(m.message, 1, sp - 1)
    IN  IF sp > 0
        THEN IF ~IsUtf8(command) THEN SplitErr
             ELSE IF index = U16_MOD - 1 /\ checks THEN SplitPanic
             ELSE IF m.length > as_u16(index + 1)
                  THEN IF sp > m.length \/ m.length > Len(m.message)
                       THEN SplitPanic
                       ELSE SplitOk(command, SubSeq(m.message, sp + 1, m.length))
                  ELSE SplitOk(command, <<>>)
        ELSE IF ~IsUtf8(m.message) THEN SplitErr
             ELSE SplitOk(m.message, <<>>)

(***************************************************************************)
(* server_commands.rs: ServerCommandList and its parser.                   *)
(***************************************************************************)
Cmd(name, data) == [name |-> name, data |-> data]

\* TryFrom<BinaryMessage> for ServerCommandList; it panics when split does
Parsed(cmd) == [panic |-> FALSE, ok |-> TRUE, cmd |-> cmd]
try_from(m, checks) ==
    IF m.message_type = MT_Command
    THEN LET s == split(m, checks)
             c == to_ascii_uppercase(s.command)
         IN  IF s.panic
             THEN [panic |-> TRUE, ok |-> FALSE, cmd |-> Cmd("Unknown", <<>>)]
             ELSE IF ~s.ok
             THEN [panic |-> FALSE, ok |-> FALSE, cmd |-> Cmd("Unknown", <<>>)]
             ELSE Parsed(
                   IF c = S_DM THEN Cmd("DirectMessage", s.arguments)
                   ELSE IF c = S_HEARTBEAT THEN Cmd("HeartBeat", <<>>)
                   ELSE IF c = S_DROP THEN Cmd("Drop", <<>>)
                   ELSE IF c = S_HINT THEN Cmd("Hint", s.arguments)
                   ELSE IF c = S_GUESS THEN Cmd("Guess", s.arguments)
                   ELSE IF c = S_STARTGAME THEN Cmd("StartGame", s.arguments)
                   ELSE IF c = S_CANCEL THEN Cmd("CancelGame", <<>>)
                   ELSE IF c = S_REQUEST THEN Cmd("RequestOpponents", <<>>)
                   ELSE Cmd("Unknown", <<>>))
    ELSE IF m.message_type = MT_Message
         THEN Parsed(Cmd("Message", m.message))
         ELSE Parsed(Cmd("Unknown", <<>>))

(***************************************************************************)
(* guess_game.rs: Game.                                                    *)
(***************************************************************************)
\* Game::new: the id is the decimal text "{timestamp}{id_guest}{id_host}"
\* parsed as a number
\* Game::new with the two players exchanged
Game_new_swapped(id_host, id_guest, secret, timestamp) ==
    [game_id |-> ConcatDec(ConcatDec(timestamp, id_guest), id_host),
     host_id |-> id_guest,
     opponent_id |-> id_host,
     secret |-> secret,
     attempts |-> INITIAL_ATTEMPTS,
     last_guess |-> <<>>,
     last_hint |-> <<>>,
     game_state |-> Ongoing]

Game_new(id_host, id_guest, secret, timestamp) ==
    [game_id |-> ConcatDec(ConcatDec(timestamp, id_guest), id_host),
     host_id |-> id_host,
     opponent_id |-> id_guest,
     secret |-> secret,
     attempts |-> INITIAL_ATTEMPTS,
     last_guess |-> <<>>,
     last_hint |-> <<>>,
     game_state |-> Ongoing]

(***************************************************************************)
(* server.rs: ServerData, the registry.  Each operator takes the fields it *)
(* reads and returns the fields it writes together with its result.        *)
(***************************************************************************)
Contains(seq, x) == \E i \in 1..Len(seq) : seq[i] = x

\* Vec::retain
Retain(seq, Keep(_)) == SelectSeq(seq, Keep)

\* index of the first element satisfying Test, 0 when there is none
FirstIndex(seq, Test(_)) ==
    LET S == {i \in 1..Len(seq) : Test(seq[i])}
    IN  IF S = {} THEN 0 ELSE Min(S)

get_opponents(users, id) ==
    IF Len(users) = 0 THEN [some |-> FALSE, list |-> <<>>]
    ELSE [some |-> TRUE, list |-> LET keep(x) == x # id IN Retain(users, keep)]

\* start_game without the check that the guest is not the host
start_game_self(users, games, id_host, id_guest, secret, timestamp) ==
    IF ~Contains(users, id_guest)
    THEN [ok |-> FALSE, games |-> games, id |-> None,
          err |-> T_ERR_USER_ \o Dec(id_guest) \o T__NOT_EXIST_GAME]
    ELSE LET new_game == Game_new(id_host, id_guest, secret, timestamp)
         IN  [ok |-> TRUE, games |-> Append(games, new_game),
              id |-> new_game.game_id, err |-> <<>>]

start_game(users, games, id_host, id_guest, secret, timestamp) ==
    IF ~Contains(users, id_guest)
    THEN [ok |-> FALSE, games |-> games, id |-> None,
          err |-> T_ERR_USER_ \o Dec(id_guest) \o T__NOT_EXIST_GAME]
    ELSE IF id_guest = id_host
    THEN [ok |-> FALSE, games |-> games, id |-> None,
          err |-> T_ERR_USER_ \o Dec(id_guest) \o T__SELF_MATCH]
    ELSE LET new_game == Game_new(id_host, id_guest, secret, timestamp)
         IN  [ok |-> TRUE, games |-> Append(games, new_game),
              id |-> new_game.game_id, err |-> <<>>]

\* the id of the first game in which `id` is host or opponent
IsParticipant(game, id) == game.host_id = id \/ game.opponent_id = id
get_game_id(games, id) ==
    LET test(g) == IsParticipant(g, id)
        i == FirstIndex(games, test)
    IN  IF i = 0 THEN None ELSE games[i].game_id

\* index of the game get_game_mut_ref returns, 0 for None
get_game_mut_ref(games, id) ==
    LET test(g) == g.game_id = id IN FirstIndex(games, test)

get_opponent_id(games, player_id) ==
    LET test(g) == player_id = g.host_id
        i == FirstIndex(games, test)
    IN  IF i = 0 THEN [ok |-> FALSE, id |-> None, err |-> T_NO_OPPONENT]
        ELSE [ok |-> TRUE, id |-> games[i].opponent_id, err |-> <<>>]

get_host_id(games, player_id) ==
    LET test(g) == player_id = g.opponent_id
        i == FirstIndex(games, test)
    IN  IF i = 0 THEN [ok |-> FALSE, id |-> None, err |-> T_NO_HOST]
        ELSE [ok |-> TRUE, id |-> games[i].host_id, err |-> <<>>]

\* terminate_game that removes every game
terminate_game_all(games, id) ==
    LET same(g) == g.game_id = id
    IN  IF FirstIndex(games, same) = 0
        THEN [ok |-> FALSE, games |-> games,
              err |-> T_USER_ \o Dec(id) \o T__NOT_EXIST]
        ELSE [ok |-> TRUE, games |-> <<>>, err |-> <<>>]

terminate_game(games, id) ==
    LET same(g) == g.game_id = id
        keep(g) == g.game_id # id
    IN  IF FirstIndex(games, same) = 0
        THEN [ok |-> FALSE, games |-> games,
              err |-> T_USER_ \o Dec(id) \o T__NOT_EXIST]
        ELSE [ok |-> TRUE, games |-> Retain(games, keep), err |-> <<>>]

\* the body of update_game_guess's loop for the game it finds.  `checks` is
\* the build's overflow-checks setting: attempts - 1 on a u8 of 0 panics
\* with it (debug profile) and wraps to 255 without it (release profile).
\* the comparison of update_game_guess without to_lowercase
guess_matches_exact(guess, secret) == guess = secret

guess_matches(guess, secret) == to_lowercase(guess) = to_lowercase(secret)
decrement_u8(n, checks) ==
    IF n = 0 THEN (IF checks THEN None ELSE U8_MAX) ELSE n - 1
state_after_decrement(game, attempts) ==
    IF attempts = 0 THEN Defeat ELSE game.game_state
guess_game(game, guess, checks) ==
    IF guess_matches(guess, game.secret)
    THEN [panic |-> FALSE, game |-> [game EXCEPT !.game_state = Victory]]
    ELSE LET attempts == decrement_u8(game.attempts, checks)
         IN  IF attempts = None
             THEN [panic |-> TRUE, game |-> game]
             ELSE [panic |-> FALSE,
                   game |-> [game EXCEPT
                                !.attempts = attempts,
                                !.last_guess = guess,
                                !.game_state = state_after_decrement(game, attempts)]]

\* what update_game_guess returns once its loop has applied the guess to
\* the i-th game, with result r
guess_applied(games, i, r) ==
    [ok |-> ~r.panic, panic |-> r.panic,
     games |-> [games EXCEPT ![i] = r.game],
     state |-> r.game.game_state, err |-> <<>>]

update_game_guess(games, id, guess, checks) ==
    LET i == get_game_mut_ref(games, id)
    IN  IF i = 0
        THEN [ok |-> FALSE, panic |-> FALSE, games |-> games, state |-> Ongoing,
              err |-> T_GUESS_NO_GAME]
        ELSE guess_applied(games, i, guess_game(games[i], guess, checks))

update_game_hint(games, id, hint) ==
    LET i == get_game_mut_ref(games, id)
    IN  IF i = 0
        THEN [ok |-> FALSE, games |-> games, err |-> T_HINT_NO_GAME]
        ELSE [ok |-> TRUE, games |-> [games EXCEPT ![i].last_hint = hint],
              err |-> <<>>]

\* validate_password that accepts every candidate
validate_password_any(password, password_external) == TRUE

validate_password(password, password_external) == password = password_external

user_exists(users, id) == Contains(users, id)

\* add_user without the "+ 1"
add_user_no_increment(users) ==
    LET id == MaxOr0(users)
    IN  [id |-> id, users |-> Append(users, id)]

add_user(users) ==
    LET id == MaxOr0(users) + 1
    IN  [id |-> id, users |-> Append(users, id)]

\* drop_user without the check that the user exists
drop_user_unchecked(users, id) ==
    [ok |-> TRUE, users |-> LET keep(x) == id # x IN Retain(users, keep),
     err |-> <<>>]

drop_user(users, id) ==
    IF ~user_exists(users, id)
    THEN [ok |-> FALSE, users |-> users,
          err |-> T_USER_ \o Dec(id) \o T__NOT_EXIST]
    ELSE [ok |-> TRUE, users |-> LET keep(x) == id # x IN Retain(users, keep),
          err |-> <<>>]

(***************************************************************************)
(* server_commands.rs: ServerCommandList::execute.                         *)
(*                                                                         *)
(* The result of an execution: its kind ("Ok", one of the three            *)
(* ServerCommandError variants, "Panic" when the thread panics, "Blocked"  *)
(* when it waits for the registry lock for ever), the reply frame (Ok) or  *)
(* the error text (ErrorMessage), the (recipient, frame) pairs sent on     *)
(* thread_send, and the registry and its lock as the execution leaves      *)
(* them.  thread_send.send never fails: the dispatcher keeps its Receiver  *)
(* for the life of the process.                                            *)
(***************************************************************************)
Res(kind, reply, err, posted, users, games, lk, created) ==
    [kind |-> kind, reply |-> reply, err |-> err, posted |-> posted,
     users |-> users, games |-> games, lock |-> lk, created |-> created]

\* Ok(..) and Err(ErrorMessage(..)).  lk is the lock as the arm leaves it:
\* what it was on entry for an arm that never acquires it, "free" for an arm
\* that acquired it and dropped its guard on return.
Ok(reply, posted, users, games, lk) ==
    Res("Ok", reply, <<>>, posted, users, games, lk, 0)
ErrorMessage(err, posted, users, games, lk) ==
    Res("ErrorMessage", default_message, err, posted, users, games, lk, 0)

\* server.write().unwrap() / server.read().unwrap() by a thread that holds
\* no lock: a poisoned lock makes unwrap panic, a lock held for ever blocks
LockUnavailable(lk) == lk # "free"
AcquireFails(users, games, lk) ==
    Res(IF lk = "poisoned" THEN "Panic" ELSE "Blocked",
        default_message, <<>>, <<>>, users, games, lk, 0)

execute_Unknown(users, games, lk) ==
    Ok(new_message(T_UNKNOWN_CMD), <<>>, users, games, lk)

execute_HeartBeat(users, games, lk) ==
    Ok(new_message(T_HEARTBEAT_OK), <<>>, users, games, lk)

\* the recipient of the "MATCH CANCELED" side-message of Drop and CancelGame
cancel_recipient(game, local) == game.opponent_id

\* Drop.  `relock` is what the second server.write() does to the thread that
\* already holds the write lock: "deadlocked" or "poisoned" (it panics).
execute_Drop(users, games, local, relock) ==
    LET game_id == get_game_id(games, local)
        first == IF game_id = None THEN [ok |-> TRUE, games |-> games]
                 ELSE terminate_game(games, game_id)
        posted == IF game_id = None THEN <<>>
                  ELSE <<<<cancel_recipient(games[get_game_mut_ref(games, game_id)], local),
                           new_message(T_MATCH_CANCELED)>>>>
    IN  IF get_game_id(first.games, local) # None
        THEN Res(IF relock = "poisoned" THEN "Panic" ELSE "Blocked",
                 default_message, <<>>, posted, users, first.games, relock, 0)
        ELSE Res("TerminateUser", default_message, <<>>, posted, users,
                 first.games, "free", 0)

execute_DirectMessage(users, games, lk, data) ==
    LET tokens == split_whitespace(data)
        id == parse_u64(tokens[1])
    IN  IF data = <<>> THEN ErrorMessage(T_ERR_8BYTES, <<>>, users, games, lk)
        ELSE IF ~IsUtf8(data) \/ Len(tokens) = 0
        THEN Res("Panic", default_message, <<>>, <<>>, users, games, lk, 0)
        ELSE IF ~id.ok
        THEN ErrorMessage(T_ERR_VALID_ID \o id.err, <<>>, users, games, lk)
        ELSE IF Len(tokens) < 2
        THEN Res("Panic", default_message, <<>>, <<>>, users, games, lk, 0)
        ELSE Ok(new_message(T_OK_SENT_ \o tokens[2] \o T__TO_ID_ \o Dec(id.value)),
                <<<<id.value, new_message(tokens[2])>>>>, users, games, lk)

execute_Message(users, games, lk, message) ==
    IF ~IsUtf8(message) THEN ErrorMessage(utf8_error_text(message), <<>>, users, games, lk)
    ELSE Ok(new_message(T_MESSAGE_ \o message \o T__SENT), <<>>, users, games, lk)

execute_Hint(users, games, local, message) ==
    LET game_id == get_game_id(games, local)
        upd == update_game_hint(games, game_id, message)
        opp == get_opponent_id(upd.games, local)
    IN  IF ~IsUtf8(message)
        THEN Res("Panic", default_message, <<>>, <<>>, users, games, "poisoned", 0)
        ELSE IF game_id = None
        THEN ErrorMessage(T_ERR_NO_GAME_ \o Dec(local) \o T__FOUND, <<>>, users, games, "free")
        ELSE IF ~upd.ok THEN ErrorMessage(upd.err, <<>>, users, games, "free")
        ELSE IF ~opp.ok THEN ErrorMessage(opp.err, <<>>, users, upd.games, "free")
        ELSE Ok(new_message(T_HINT_SENT),
                <<<<opp.id, new_message(T_HINT_ \o message)>>>>, users, upd.games, "free")

\* the state and the attempts count the Guess arm reports: those it read
\* from the game before update_game_guess ran
reported_state(before, after) == before.game_state
reported_attempts(before, after) == before.attempts

attempts_text(guess, attempts) ==
    guess \o T_IS_INCORRECT_ \o Dec(attempts) \o T_ATTEMPTS_LEFT

\* the Guess arm from its call of update_game_guess on: upd is the result
\* of the call
guess_outcome(users, games, game_id, message, upd) ==
    LET i == get_game_mut_ref(games, game_id)
        game == games[i]
        game_state == reported_state(game, upd.games[i])
        attempts == reported_attempts(game, upd.games[i])
        term == terminate_game(upd.games, game_id)
    IN  IF upd.panic
        THEN Res("Panic", default_message, <<>>, <<>>, users, games, "poisoned", 0)
        ELSE IF ~upd.ok THEN ErrorMessage(upd.err, <<>>, users, games, "free")
        ELSE IF game_state = Victory
        THEN IF term.ok
             THEN Ok(new_command(T_VICTORY),
                     <<<<game.host_id, new_command(T_DEFEAT)>>>>, users, term.games, "free")
             ELSE ErrorMessage(term.err, <<<<game.host_id, new_command(T_DEFEAT)>>>>,
                               users, upd.games, "free")
        ELSE IF game_state = Defeat
        THEN Ok(new_command(T_DEFEAT),
                <<<<game.host_id, new_command(T_VICTORY)>>>>, users, upd.games, "free")
        ELSE Ok(new_message(T_OK_GUESS_ \o attempts_text(message, attempts)),
                <<<<game.host_id, new_message(T_GUESS_ \o attempts_text(message, attempts))>>>>,
                users, upd.games, "free")

execute_Guess(users, games, local, message, checks) ==
    LET game_id == get_game_id(games, local)
    IN  IF game_id = None
        THEN ErrorMessage(T_CANCELED_GAME_ \o Dec(local) \o T__GUESS_TAIL,
                          <<>>, users, games, "free")
        ELSE IF ~IsUtf8(message)
        THEN ErrorMessage(utf8_error_text(message), <<>>, users, games, "free")
        ELSE guess_outcome(users, games, game_id, message,
                           update_game_guess(games, game_id, message, checks))

execute_StartGame(users, games, lk, local, data, timestamp) ==
    LET tokens == split_whitespace(data)
        opponent_id == parse_u64(tokens[1])
        started == start_game(users, games, local, opponent_id.value, tokens[2], timestamp)
    IN  IF data = <<>> THEN ErrorMessage(T_ERR_8BYTES, <<>>, users, games, lk)
        ELSE IF ~IsUtf8(data)
        THEN Res("Panic", default_message, <<>>, <<>>, users, games, lk, 0)
        ELSE IF Len(tokens) # 2 THEN ErrorMessage(T_ERR_2ARGS, <<>>, users, games, lk)
        ELSE IF ~opponent_id.ok
        THEN ErrorMessage(T_ERR_VALID_ID \o opponent_id.err, <<>>, users, games, lk)
        ELSE IF LockUnavailable(lk) THEN AcquireFails(users, games, lk)
        ELSE IF ~started.ok THEN ErrorMessage(started.err, <<>>, users, games, "free")
        ELSE Res("Ok", new_command(T_REQUESTACK), <<>>,
                 <<<<opponent_id.value, new_command(T_REQUESTEDGAME)>>>>,
                 users, started.games, "free", 1)

execute_CancelGame(users, games, local) ==
    LET game_id == get_game_id(games, local)
        game == games[get_game_mut_ref(games, game_id)]
        term == terminate_game(games, game_id)
    IN  IF game_id = None
        THEN ErrorMessage(T_USER_ \o Dec(local) \o T__NO_PARTICIPATE, <<>>, users, games, "free")
        ELSE IF ~term.ok THEN ErrorMessage(term.err, <<>>, users, games, "free")
        ELSE Ok(new_command(T_CANCELED),
                <<<<cancel_recipient(game, local), new_message(T_MATCH_CANCELED)>>>>,
                users, term.games, "free")

execute_RequestOpponents(users, games, local) ==
    LET opponents == get_opponents(users, local)
    IN  IF opponents.some
        THEN Ok(new_message(T_OPPONENT_LIST_ \o DebugVec(opponents.list)),
                <<>>, users, games, "free")
        ELSE ErrorMessage(T_ERR_NO_OPPONENTS, <<>>, users, games, "free")

\* the arms that take the registry lock on entry
LocksOnEntry(cmd) ==
    cmd.name \in {"Drop", "Hint", "Guess", "CancelGame", "RequestOpponents"}

execute(cmd, users, games, lk, local, timestamp, checks, relock) ==
    IF LocksOnEntry(cmd) /\ LockUnavailable(lk) THEN AcquireFails(users, games, lk)
    ELSE IF cmd.name = "Unknown" THEN execute_Unknown(users, games, lk)
    ELSE IF cmd.name = "HeartBeat" THEN execute_HeartBeat(users, games, lk)
    ELSE IF cmd.name = "Drop" THEN execute_Drop(users, games, local, relock)
    ELSE IF cmd.name = "DirectMessage" THEN execute_DirectMessage(users, games, lk, cmd.data)
    ELSE IF cmd.name = "Message" THEN execute_Message(users, games, lk, cmd.data)
    ELSE IF cmd.name = "Hint" THEN execute_Hint(users, games, local, cmd.data)
    ELSE IF cmd.name = "Guess" THEN execute_Guess(users, games, local, cmd.data, checks)
    ELSE IF cmd.name = "StartGame"
         THEN execute_StartGame(users, games, lk, local, cmd.data, timestamp)
    ELSE IF cmd.name = "CancelGame" THEN execute_CancelGame(users, games, local)
    ELSE execute_RequestOpponents(users, games, local)

(***************************************************************************)
(* server.rs: Broadcast, the bus.  A sender is [conn, id]: the connection  *)
(* holding the Receiver, and the channel id.  `alive` is the set of        *)
(* connections whose Receiver has not been dropped.                        *)
(***************************************************************************)
subscribe(snd, c) ==
    Append(snd, [conn |-> c,
                 id |-> MaxOr0([i \in 1..Len(snd) |-> snd[i].id]) + 1])

\* unsubscribe that drops every sender as soon as one is to be removed
unsubscribe_all(snd, channels_to_remove) ==
    IF channels_to_remove = {} THEN snd ELSE <<>>

unsubscribe(snd, channels_to_remove) ==
    LET keep(s) == s.id \notin channels_to_remove IN Retain(snd, keep)

\* a sender.send that always fails
send_fails(s, alive) == FALSE

\* whether sender.send succeeds: the Receiver still exists
send_ok(s, alive) == s.conn \in alive

\* the connections a broadcast delivers to, and the senders it keeps
broadcast_targets(snd, alive) ==
    {snd[i].conn : i \in {j \in 1..Len(snd) : send_ok(snd[j], alive)}}
broadcast_senders(snd, alive) ==
    unsubscribe(snd, {snd[i].id : i \in {j \in 1..Len(snd) : ~send_ok(snd[j], alive)}})

(***************************************************************************)
(* server_process.rs: the connection threads.                              *)
(***************************************************************************)
\* a handler that writes every bus message it takes
bus_filter_all(id, local) == TRUE

\* the filter of client_connection on a bus message
bus_filter(id, local) == id = local

\* what one read of the socket yields
EOF == [kind |-> "eof", data |-> <<>>]
WouldBlock == [kind |-> "wouldblock", data |-> <<>>]
\* a read that fails with an error other than WouldBlock
ReadError == [kind |-> "error", data |-> <<>>]
Data(bytes) == [kind |-> "data", data |-> bytes]

NoCmd == Cmd("None", <<>>)

\* process_stream on the bytes of a successful read of non-zero size: the
\* buffer check, BinaryMessage::deserialize and the conversion to a command
\* str::starts_with
starts_with(s, prefix) ==
    Len(s) >= Len(prefix) /\ SubSeq(s, 1, Len(prefix)) = prefix

read_frame(data) ==
    \* String::from_utf8(temp_buffer).unwrap() on the zero-padded buffer
    IF ~IsUtf8(data \o <<0>>) THEN [kind |-> "Panic", cmd |-> NoCmd]
    ELSE IF starts_with(data, T_GET) THEN [kind |-> "Browser", cmd |-> NoCmd]
    \* a message deserialized from the buffer has its first space below
    \* index 65535, so split's sum is the same with and without overflow
    \* checks
    ELSE LET d == deserialize_buf(data, BUFFER_SIZE)
             parsed == try_from(d.msg, TRUE)
         IN  IF d.panic \/ parsed.panic THEN [kind |-> "Panic", cmd |-> NoCmd]
             ELSE IF ~parsed.ok THEN [kind |-> "None", cmd |-> NoCmd]
             ELSE [kind |-> "Some", cmd |-> parsed.cmd]

\* the page process_stream writes to a browser: the bytes of the HTTP
\* response whose body is format!("{:#?}", ..) of get_spectator_data(), the
\* ongoing games
HttpPage(games) == [page |-> T_HTTP_HEAD \o DebugGamesPretty(games) \o T_HTTP_TAIL]

\* what stream.write_all does with the bytes it is given: it writes them
\* ("ok"), it returns an error because the peer has closed or reset the
\* connection ("fail"), or it never returns because the peer has stopped
\* reading and the buffers of the connection are full ("block"): run_server
\* sets a read timeout on the stream and no write timeout.  Only a stream
\* that holds bytes written earlier can be full.
WriteOutcomes(has_unread) ==
    IF has_unread THEN {"ok", "fail", "block"} ELSE {"ok", "fail"}

\* process_stream: "Some" with the command read, "None", "Err" (the thread
\* is to stop), "Panic", "Blocked" (it waits for the registry lock for ever)
\* or "Stuck" (its write never returns); with connected_users as it leaves
\* them and what it gave write_all.  `frame` is read_frame of the bytes read,
\* `out` what write_all does.
PS(kind, cmd, users) == [kind |-> kind, cmd |-> cmd, users |-> users, wrote |-> <<>>]
process_stream(input, frame, users, games, lk, local, out) ==
    IF input.kind = "wouldblock" THEN PS("None", NoCmd, users)
    \* a read of no bytes and a failed read both drop the user and stop
    ELSE IF input.kind \in {"eof", "error"}
    THEN IF lk = "poisoned" THEN PS("Panic", NoCmd, users)
         ELSE IF lk = "deadlocked" THEN PS("Blocked", NoCmd, users)
         ELSE PS("Err", NoCmd, drop_user(users, local).users)
    ELSE IF frame.kind = "Browser"
    THEN IF lk = "poisoned" THEN PS("Panic", NoCmd, users)
         ELSE IF lk = "deadlocked" THEN PS("Blocked", NoCmd, users)
         \* stream.write_all(..).unwrap(), the read guard released
         ELSE [PS(IF out = "ok" THEN "None"
                  ELSE IF out = "fail" THEN "Panic" ELSE "Stuck", NoCmd, users)
                  EXCEPT !.wrote = <<HttpPage(games)>>]
    ELSE PS(frame.kind, frame.cmd, users)

\* send_response: the frame is printed and given to write_all; when
\* write_all fails the thread takes the write lock and calls drop_user,
\* whose error it only logs, and returns to its caller.  "Done" when it
\* returns, with connected_users as it leaves them and what it gave
\* write_all.
SR(kind, users, wrote) == [kind |-> kind, users |-> users, wrote |-> wrote]
send_response(response, users, lk, local, out) ==
    IF ~IsUtf8(response.message) THEN SR("Panic", users, <<>>)
    ELSE IF out = "ok" THEN SR("Done", users, <<response>>)
    ELSE IF out = "block" THEN SR("Stuck", users, <<response>>)
    ELSE IF lk = "poisoned" THEN SR("Panic", users, <<response>>)
    ELSE IF lk = "deadlocked" THEN SR("Blocked", users, <<response>>)
    ELSE SR("Done", drop_user(users, local).users, <<response>>)

\* the record of a handler step: the connection, the step ("handshake",
\* "id", "recv", "main", "send", "reply"), the kind of input read, the bus
\* message taken and the frame of it given to write_all, the command read,
\* the kind of its result, the reply it leaves to write, the pairs its
\* execution sends on thread_send, what else the step gave write_all, and
\* what write_all did
NoStep ==
    [conn |-> 0, step |-> "none", input |-> "none", bus |-> <<>>, bus_wrote |-> <<>>,
     cmd |-> NoCmd, kind |-> "none", answer |-> <<>>, posted |-> <<>>,
     wrote |-> <<>>, out |-> "ok"]
Step(c, step) == [NoStep EXCEPT !.conn = c, !.step = step]

\* what a connection thread holds between two steps: the command it has
\* executed, the reply it is to write, and the pairs it is to send on
\* thread_send
NoHold == [cmd |-> NoCmd, reply |-> <<>>, late |-> <<>>]

\* the positions of a connection thread.  In validate_user: "validate" in
\* its loop, "id" before the send_response of the id add_user returned,
\* "joined" before the read of the registry that ends it.  In the loop of
\* client_connection: "main" at try_recv, "read" at process_stream, "send"
\* at the thread_send.send that follows the release of the lock, "reply" at
\* the send_response of the reply.  "blocked": waiting for the registry lock
\* for ever; "stuck": in a write_all that never returns.
HandshakePcs == {"validate", "id", "joined"}
LoopPcs == {"main", "read", "send", "reply"}
LivePcs == HandshakePcs \cup LoopPcs \cup {"blocked", "stuck"}

\* the connections whose thread still owns its Receiver
Alive == {c \in Conns : pc[c] \in LivePcs}

\* where the thread is after an execution, a read or a write of the given
\* kind
pc_after(kind, running) ==
    IF kind \in {"TerminateThread", "TerminateUser", "Err"} THEN "done"
    ELSE IF kind = "Panic" THEN "panicked"
    ELSE IF kind = "Blocked" THEN "blocked"
    ELSE IF kind = "Stuck" THEN "stuck"
    ELSE running

(***************************************************************************)
(* Inputs of the model: the frames a client sends.                         *)
(***************************************************************************)
Password == T_PASSWORD
WrongPassword == <<120>>        \* "x"
Secrets == {<<97>>}             \* "a"
Guesses == {<<65>>, <<98>>}     \* "A" (the secret, ignoring case), "b"
Hints == {<<104>>}              \* "h"
TargetIds == 1..MaxConns

SP == <<32>>
CommandTexts ==
    {S_HEARTBEAT, S_DROP, S_CANCEL}
    \cup {S_GUESS \o SP \o g : g \in Guesses}
    \cup {S_HINT \o SP \o h : h \in Hints}
    \cup {S_STARTGAME \o SP \o Dec(i) \o SP \o s : i \in TargetIds, s \in Secrets}

MainInputs ==
    {Data(serialize(new_command(t))) : t \in CommandTexts} \cup {EOF, WouldBlock}

HandshakeInputs ==
    {Data(serialize(new_message(p))) : p \in {Password, WrongPassword}}
    \cup {Data(serialize(new_command(S_HEARTBEAT))), EOF}

\* the handshakes of clients that send a password at once
PasswordInputs == {Data(serialize(new_message(p))) : p \in {Password, WrongPassword}}

\* the inputs that only read and change connected_users
UserInputs ==
    {Data(serialize(new_command(t))) : t \in {S_DROP, S_REQUEST}} \cup {EOF, WouldBlock}

\* the inputs that only route messages: "DM <id> h"
BusInputs ==
    {Data(serialize(new_command(S_DM \o SP \o Dec(i) \o SP \o h))) :
        i \in {1, 2}, h \in Hints}
    \cup {EOF, WouldBlock}

\* the frames a client can send before it is authenticated: the handshake
\* inputs, a Command frame that names no command, and a frame whose type tag
\* is neither Command nor Message
UnknownFrame == BinaryMessage(1, MT_Unknown, <<120>>)
AuthInputs ==
    HandshakeInputs
    \cup {Data(serialize(new_command(<<120>>))), Data(serialize(UnknownFrame))}

\* the frames that start and cancel games
GameInputs ==
    {Data(serialize(new_command(t))) :
        t \in {S_CANCEL} \cup {S_STARTGAME \o SP \o Dec(i) \o SP \o s :
                                  i \in TargetIds, s \in Secrets}}

\* direct messages, well formed and not: "DM 2 h", "DM 2 h h", "DM 2",
\* "DM" followed by two spaces
DmOneWord == Data(serialize(new_command(S_DM \o SP \o Dec(2) \o SP \o <<104>>)))
DmTwoWords ==
    Data(serialize(new_command(S_DM \o SP \o Dec(2) \o SP \o <<104>> \o SP \o <<104>>)))
DmIdOnly == Data(serialize(new_command(S_DM \o SP \o Dec(2))))
DmBlank == Data(serialize(new_command(S_DM \o SP \o SP)))

\* "DM 2\u{a0}h x": the id and the text are separated by a no-break space
DmNoBreakSpace ==
    Data(serialize(new_command(S_DM \o SP \o Dec(2) \o <<194, 160, 104>> \o SP \o <<120>>)))
\* "DM 18446744073709551616 h": the id is u64::MAX + 1
DmHugeId ==
    Data(serialize(new_command(S_DM \o SP \o SubSeq(U64_MAX_DIGITS, 1, 19) \o <<54>> \o SP \o <<104>>)))

\* the request line of a browser, "GET / HTTP/1.1\r\n\r\n"
BrowserRequest == Data(T_GET \o <<13, 10, 13, 10>>)

\* a Message frame whose payload is the byte 0xFF, which is not UTF-8
NonUtf8Frame == Data(serialize(new_message(<<255>>)))

\* a Command frame of four bytes whose length prefix says 4096
OversizeFrame == Data(<<16, 0, MT_Command, 120>>)

FrameInputs ==
    {DmOneWord, DmTwoWords, DmIdOnly, DmBlank, DmNoBreakSpace, DmHugeId,
     BrowserRequest, NonUtf8Frame, OversizeFrame, EOF, ReadError, WouldBlock}

\* read_frame of every input of the model, computed once
\* the direct message "DM <id> <k>" whose text is the number k
StampedDm(i, k) == Data(serialize(new_command(S_DM \o SP \o Dec(i) \o SP \o Dec(k))))
StampedDms == {StampedDm(i, k) : i \in 1..MaxConns, k \in 0..MaxCmds}
\* the direct message "DM x <k>", whose id is no number
BadIdDm(k) == Data(serialize(new_command(S_DM \o SP \o <<120>> \o SP \o Dec(k))))
BadIdDms == {BadIdDm(k) : k \in 0..MaxCmds}

AllInputs ==
    MainInputs \cup HandshakeInputs \cup UserInputs \cup BusInputs \cup AuthInputs
    \cup FrameInputs \cup StampedDms \cup BadIdDms
Frames == [i \in AllInputs |-> IF i.kind = "data" THEN read_frame(i.data)
                                ELSE [kind |-> "None", cmd |-> NoCmd]]

(***************************************************************************)
(* The state machine.  A step of a thread is a stretch of its code that    *)
(* touches the state shared with the other threads at one place: one       *)
(* acquisition of the registry lock, or one operation on a channel.        *)
(***************************************************************************)
Init ==
    /\ connected_users = <<>>
    /\ ongoing_games = <<>>
    /\ lock = "free"
    /\ clock = 1
    /\ pc = [c \in Conns |-> "none"]
    /\ local_id = [c \in Conns |-> 0]
    /\ rx = [c \in Conns |-> <<>>]
    /\ intake = <<>>
    /\ senders = <<>>
    /\ issued = <<>>
    /\ ncmd = 0
    /\ last = NoStep
    /\ hold = [c \in Conns |-> NoHold]
    /\ unread = [c \in Conns |-> FALSE]

\* the stream of connection c after write_all was given `frames`
written(c, frames, out) ==
    [unread EXCEPT ![c] = @ \/ (frames # <<>> /\ out = "ok")]

\* the Receiver of connection c: dropped with the thread that ends
receiver(c, position, queue) ==
    [rx EXCEPT ![c] = IF position \in {"done", "panicked"} THEN <<>> ELSE queue]

\* run_server: the listener accepts a connection and spawns its thread,
\* which subscribes to the bus and enters validate_user
Accept(c) ==
    /\ pc[c] = "none"
    /\ IF c = 1 THEN TRUE ELSE pc[c - 1] # "none"
    /\ senders' = subscribe(senders, c)
    /\ pc' = [pc EXCEPT ![c] = "validate"]
    /\ UNCHANGED <<connected_users, ongoing_games, lock, clock, local_id, rx, intake,
                   issued, ncmd, last, hold, unread>>

\* validate_user: one round of its loop, up to the call of add_user when
\* the password is right and to its return when it is not.  The rounds that
\* refuse the client touch the shared state only where send_response does.
\* The read lock of validate_password and the write lock of add_user are
\* taken one after the other; a lock that is not free never becomes free,
\* so a lock lost between the two stops the thread as one lost before both.
validate_user(input, frame, users, games, lk, out) ==
    LET r == process_stream(input, frame, users, games, lk, 0, out)
        pass == r.cmd.data
        added == add_user(users)
        V(kind, wrote, us, id) ==
            [kind |-> kind, cmd |-> r.cmd, wrote |-> wrote, users |-> us, id |-> id]
        refuse(text) ==
            LET sr == send_response(new_message(text), users, lk, 0, out)
            IN  V(IF sr.kind = "Done" THEN "TerminateThread" ELSE sr.kind,
                  sr.wrote, sr.users, 0)
    IN  IF r.kind # "Some"
        THEN V(IF r.kind = "None" THEN "Continue" ELSE r.kind, r.wrote, r.users, 0)
        ELSE IF r.cmd.name # "Message" THEN refuse(T_ERR_COMMAND)
        ELSE IF ~IsUtf8(pass) THEN V("ErrorMessage", <<>>, users, 0)
        ELSE IF lk = "poisoned" THEN V("Panic", <<>>, users, 0)
        ELSE IF lk = "deadlocked" THEN V("Blocked", <<>>, users, 0)
        ELSE IF validate_password(Password, pass)
        THEN V("Ok", <<>>, added.users, added.id)
        ELSE refuse(T_ERR_PASSWORD)

Handshake(c, input, out) ==
    /\ pc[c] = "validate"
    /\ out \in WriteOutcomes(unread[c])
    /\ \E v \in {validate_user(input, Frames[input], connected_users, ongoing_games,
                               lock, out)} :
           /\ v.wrote = <<>> => out = "ok"
           /\ connected_users' = v.users
           /\ local_id' = [local_id EXCEPT ![c] = v.id]
           /\ issued' = IF v.kind = "Ok" THEN Append(issued, v.id) ELSE issued
           /\ hold' = [hold EXCEPT ![c].reply =
                         IF v.kind = "Ok" THEN <<new_message(T_ID_ \o Dec(v.id))>>
                         ELSE <<>>]
           /\ pc' = [pc EXCEPT ![c] =
                       IF v.kind = "Ok" THEN "id"
                       ELSE IF v.kind = "Continue" THEN "validate"
                       ELSE IF v.kind = "ErrorMessage" THEN "done"
                       ELSE pc_after(v.kind, "validate")]
           /\ rx' = receiver(c, pc'[c], rx[c])
           /\ unread' = written(c, v.wrote, out)
           /\ last' = [Step(c, "handshake") EXCEPT
                         !.input = input.kind, !.cmd = v.cmd, !.kind = v.kind,
                         !.answer = hold'[c].reply, !.wrote = v.wrote, !.out = out]
    /\ UNCHANGED <<ongoing_games, lock, clock, intake, senders, ncmd>>

\* validate_user: the send_response of the id, after add_user has released
\* the write lock
HandshakeReply(c, out) ==
    /\ pc[c] = "id"
    /\ out \in WriteOutcomes(unread[c])
    /\ \E sr \in {send_response(hold[c].reply[1], connected_users, lock, local_id[c],
                                out)} :
           /\ sr.wrote = <<>> => out = "ok"
           /\ connected_users' = sr.users
           /\ pc' = [pc EXCEPT ![c] = pc_after(sr.kind, "joined")]
           /\ unread' = written(c, sr.wrote, out)
           /\ last' = [Step(c, "id") EXCEPT !.wrote = sr.wrote, !.out = out]
    /\ rx' = receiver(c, pc'[c], rx[c])
    /\ hold' = [hold EXCEPT ![c] = NoHold]
    /\ UNCHANGED <<ongoing_games, lock, clock, local_id, intake, senders, issued, ncmd>>

\* validate_user: the server.read().unwrap() of its last println, and its
\* return to client_connection
HandshakeDone(c) ==
    /\ pc[c] = "joined"
    /\ pc' = [pc EXCEPT ![c] = IF lock = "poisoned" THEN "panicked"
                               ELSE IF lock = "deadlocked" THEN "blocked"
                               ELSE "main"]
    /\ rx' = receiver(c, pc'[c], rx[c])
    /\ UNCHANGED <<connected_users, ongoing_games, lock, clock, local_id, intake,
                   senders, issued, ncmd, last, hold, unread>>

\* client_connection, the loop: try_recv takes at most one message from the
\* bus subscription, and send_response writes it when it is addressed to
\* this connection.  Only this thread takes from its Receiver, and what the
\* dispatcher appends meanwhile goes behind the message taken.
Recv(c, out) ==
    /\ pc[c] = "main"
    /\ out \in WriteOutcomes(unread[c])
    /\ LET bus == IF rx[c] = <<>> THEN <<>> ELSE <<Head(rx[c])>>
           bus_wrote == IF bus # <<>> /\ bus_filter(bus[1][1], local_id[c])
                        THEN <<bus[1][2]>> ELSE <<>>
       IN  \E sr \in {IF bus_wrote = <<>> THEN SR("Done", connected_users, <<>>)
                      ELSE send_response(bus_wrote[1], connected_users, lock,
                                         local_id[c], out)} :
           /\ sr.wrote = <<>> => out = "ok"
           /\ connected_users' = sr.users
           /\ pc' = [pc EXCEPT ![c] = pc_after(sr.kind, "read")]
           /\ rx' = receiver(c, pc'[c], IF rx[c] = <<>> THEN <<>> ELSE Tail(rx[c]))
           /\ unread' = written(c, sr.wrote, out)
           /\ last' = IF bus = <<>> THEN last
                      ELSE [Step(c, "recv") EXCEPT
                              !.bus = bus, !.bus_wrote = sr.wrote, !.out = out]
    /\ UNCHANGED <<ongoing_games, lock, clock, local_id, intake, senders, issued, ncmd,
                   hold>>

\* the arm of execute that sends on thread_send after it has released the
\* write lock
SendsAfterRelease(cmd) == cmd.name = "StartGame"

RelockOutcomes == {"deadlocked", "poisoned"}

\* client_connection, the loop: process_stream and the execution of the
\* command it read, up to the reply
main_read(input, frame, users, games, lk, local, timestamp, checks, relock, out) ==
    LET r == process_stream(input, frame, users, games, lk, local, out)
        e == execute(r.cmd, r.users, games, lk, local, timestamp, checks, relock)
    IN  IF r.kind = "Some"
        THEN [e EXCEPT !.reply = IF e.kind = "ErrorMessage" THEN new_message(e.err) ELSE @]
                @@ [cmd |-> r.cmd, replies |-> e.kind \in {"Ok", "ErrorMessage"},
                    page |-> <<>>]
        ELSE Res(r.kind, default_message, <<>>, <<>>, r.users, games, lk, 0)
                @@ [cmd |-> NoCmd, replies |-> FALSE, page |-> r.wrote]

\* the channels hold at most `cap` items
Read(c, input, relock, checks, out, cap) ==
    /\ pc[c] = "read"
    /\ out \in WriteOutcomes(unread[c])
    /\ input.kind # "wouldblock" => ncmd < MaxCmds
    /\ \E e \in {main_read(input, Frames[input], connected_users, ongoing_games,
                           lock, local_id[c], clock, checks, relock, out)} :
       \E late \in {e.kind = "Ok" /\ SendsAfterRelease(e.cmd)} :
           /\ e.page = <<>> => out = "ok"
           /\ late \/ Len(intake) + Len(e.posted) <= cap
           /\ e.created > 0 => clock <= MaxGames
           /\ connected_users' = e.users
           /\ ongoing_games' = e.games
           /\ lock' = e.lock
           /\ clock' = clock + e.created
           /\ intake' = IF late THEN intake ELSE intake \o e.posted
           /\ hold' = [hold EXCEPT ![c] =
                         IF e.replies
                         THEN [cmd |-> e.cmd, reply |-> <<e.reply>>,
                               late |-> IF late THEN e.posted ELSE <<>>]
                         ELSE NoHold]
           /\ pc' = [pc EXCEPT ![c] =
                       IF e.replies THEN (IF late THEN "send" ELSE "reply")
                       ELSE pc_after(e.kind, "main")]
           /\ rx' = receiver(c, pc'[c], rx[c])
           /\ unread' = written(c, e.page, out)
           /\ ncmd' = IF input.kind = "wouldblock" THEN ncmd ELSE ncmd + 1
           /\ last' = IF input.kind = "wouldblock" THEN last
                      ELSE [Step(c, "main") EXCEPT
                              !.input = input.kind, !.cmd = e.cmd, !.kind = e.kind,
                              !.answer = hold'[c].reply, !.posted = e.posted,
                              !.wrote = e.page, !.out = out]
    /\ UNCHANGED <<local_id, senders, issued>>

\* execute: the thread_send.send of an arm that has released the write lock
Send(c, cap) ==
    /\ pc[c] = "send"
    /\ Len(intake) + Len(hold[c].late) <= cap
    /\ intake' = intake \o hold[c].late
    /\ hold' = [hold EXCEPT ![c].late = <<>>]
    /\ pc' = [pc EXCEPT ![c] = "reply"]
    /\ last' = [Step(c, "send") EXCEPT !.cmd = hold[c].cmd, !.posted = hold[c].late]
    /\ UNCHANGED <<connected_users, ongoing_games, lock, clock, local_id, rx, senders,
                   issued, ncmd, unread>>

\* client_connection, the loop: the send_response of the reply, after which
\* the thread sleeps and starts the loop again
Reply(c, out) ==
    /\ pc[c] = "reply"
    /\ out \in WriteOutcomes(unread[c])
    /\ \E sr \in {send_response(hold[c].reply[1], connected_users, lock, local_id[c],
                                out)} :
           /\ sr.wrote = <<>> => out = "ok"
           /\ connected_users' = sr.users
           /\ pc' = [pc EXCEPT ![c] = pc_after(sr.kind, "main")]
           /\ unread' = written(c, sr.wrote, out)
           /\ last' = [Step(c, "reply") EXCEPT
                         !.cmd = hold[c].cmd, !.wrote = sr.wrote, !.out = out]
    /\ rx' = receiver(c, pc'[c], rx[c])
    /\ hold' = [hold EXCEPT ![c] = NoHold]
    /\ UNCHANGED <<ongoing_games, lock, clock, local_id, intake, senders, issued, ncmd>>

\* dispatch: take one message from the intake channel and broadcast it, the
\* channels holding at most `cap` items
DispatchWithin(cap) ==
    /\ intake # <<>>
    /\ \A c \in broadcast_targets(senders, Alive) : Len(rx[c]) < cap
    /\ rx' = [c \in Conns |->
                IF c \in broadcast_targets(senders, Alive)
                THEN Append(rx[c], Head(intake)) ELSE rx[c]]
    /\ senders' = broadcast_senders(senders, Alive)
    /\ intake' = Tail(intake)
    /\ UNCHANGED <<connected_users, ongoing_games, lock, clock, pc, local_id, issued,
                   ncmd, last, hold, unread>>

Dispatch == DispatchWithin(MaxQueue)

\* the outcomes of re-acquiring the lock that a command can meet
Relocks(input) ==
    IF Frames[input].cmd.name = "Drop" THEN RelockOutcomes ELSE {"deadlocked"}

\* the overflow-checks settings of the builds (debug: TRUE, release: FALSE)
\* that a command can tell apart
OverflowChecks(input) ==
    IF Frames[input].cmd.name = "Guess" THEN BOOLEAN ELSE {TRUE}

\* what the clients can make of the writes of the server: any outcome, or,
\* when they read all that is written to them for as long as their
\* connection is open, success only
Outcomes == {"ok", "fail", "block"}
Delivered == {"ok"}

\* validate_user with a client that sends one of `inputs` and makes `outs`
\* of the writes
Join(c, inputs, outs) ==
    \/ \E input \in inputs, out \in outs : Handshake(c, input, out)
    \/ \E out \in outs : HandshakeReply(c, out)
    \/ HandshakeDone(c)

\* the loop of connection c with a client that sends `inputs` and makes
\* `outs` of the writes, but for the send that follows the release of the
\* lock
ServeWithin(c, inputs, outs, cap) ==
    \/ \E out \in outs : Recv(c, out)
    \/ \E input \in inputs :
       \E relock \in Relocks(input), checks \in OverflowChecks(input), out \in outs :
           Read(c, input, relock, checks, out, cap)
    \/ \E out \in outs : Reply(c, out)

Serve(c, inputs) == ServeWithin(c, inputs, Outcomes, MaxQueue)

\* the server with clients that read all that is written to them
Next ==
    \/ \E c \in Conns : Accept(c)
    \/ \E c \in Conns : Join(c, HandshakeInputs, Delivered)
    \/ \E c \in Conns : ServeWithin(c, MainInputs, Delivered, MaxQueue)
    \/ \E c \in Conns : Send(c, MaxQueue)
    \/ Dispatch

Spec == Init /\ [][Next]_vars

\* the server with clients that only connect, list the users, drop and
\* disconnect
NextUsers ==
    \/ \E c \in Conns : Accept(c)
    \/ \E c \in Conns : Join(c, HandshakeInputs, Outcomes)
    \/ \E c \in Conns : Serve(c, UserInputs)

SpecUsers == Init /\ [][NextUsers]_vars

\* the server with clients that only send direct messages and disconnect
NextBus ==
    \/ \E c \in Conns : Accept(c)
    \/ \E c \in Conns : Join(c, PasswordInputs, Outcomes)
    \/ \E c \in Conns : Serve(c, BusInputs)
    \/ Dispatch

SpecBus == Init /\ [][NextBus]_vars

(***************************************************************************)
(* Properties.                                                             *)
(***************************************************************************)
\* the step just taken read a frame in the main loop of connection last'.conn
\* and the frame was the named command
Executed(name) == ncmd' = ncmd + 1 /\ last'.step = "main" /\ last'.cmd.name = name

\* the user acting in the step just taken
Actor == local_id[last'.conn]

GamesOf(games, u) == {i \in 1..Len(games) : IsParticipant(games[i], u)}

\* `u` takes part in exactly one game, as its opponent, and the game is Ongoing
OnlyGameAsOpponent(u, i) ==
    /\ GamesOf(ongoing_games, u) = {i}
    /\ ongoing_games[i].opponent_id = u
    /\ ongoing_games[i].game_state = Ongoing

\* C1: a GUESS by the opponent of an Ongoing game that equals the secret
\* ignoring case is answered by the Command frame "VICTORY", and posts the
\* Command frame "DEFEAT" for the host.
C1_CorrectGuessWins ==
    [][\A i \in 1..Len(ongoing_games) :
          (/\ Executed("Guess")
           /\ lock = "free"
           /\ OnlyGameAsOpponent(Actor, i)
           /\ to_lowercase(last'.cmd.data) = to_lowercase(ongoing_games[i].secret))
          => /\ last'.answer = <<new_command(T_VICTORY)>>
             /\ last'.posted = <<<<ongoing_games[i].host_id, new_command(T_DEFEAT)>>>>
      ]_vars

\* C2: whenever the registry lock is free, every game in ongoing_games is
\* Ongoing.
C2_OnlyOngoingGamesKept ==
    lock = "free" =>
        \A i \in 1..Len(ongoing_games) : ongoing_games[i].game_state = Ongoing

\* C3: the third wrong GUESS on a fresh game (the one that finds it Ongoing
\* with one attempt left) is answered by the Command frame "DEFEAT", and posts
\* the Command frame "VICTORY" for the host.
C3_ThirdWrongGuessLoses ==
    [][\A i \in 1..Len(ongoing_games) :
          (/\ Executed("Guess")
           /\ lock = "free"
           /\ OnlyGameAsOpponent(Actor, i)
           /\ ongoing_games[i].attempts = 1
           /\ to_lowercase(last'.cmd.data) # to_lowercase(ongoing_games[i].secret))
          => /\ last'.answer = <<new_command(T_DEFEAT)>>
             /\ last'.posted = <<<<ongoing_games[i].host_id, new_command(T_VICTORY)>>>>
      ]_vars

\* C4: a game whose state is Victory or Defeat keeps that state for as long
\* as it exists.
C4_TerminalStatesAreFinal ==
    [][\A i \in 1..Len(ongoing_games), j \in 1..Len(ongoing_games') :
          (/\ ongoing_games[i].game_state \in {Victory, Defeat}
           /\ ongoing_games'[j].game_id = ongoing_games[i].game_id)
          => ongoing_games'[j].game_state = ongoing_games[i].game_state
      ]_vars

\* C5: after DROP by a connected user the user is no longer in
\* connected_users and the connection handler has exited.
C5_DropRemovesUser ==
    [][(/\ Executed("Drop")
        /\ lock = "free"
        /\ Contains(connected_users, Actor))
       => /\ ~Contains(connected_users', Actor)
          /\ pc'[last'.conn] = "done"
      ]_vars

\* C6: after DROP by a connected user no game in ongoing_games has the user
\* as host or as opponent.
C6_DropEndsAllGames ==
    [][(/\ Executed("Drop")
        /\ lock = "free"
        /\ Contains(connected_users, Actor))
       => GamesOf(ongoing_games', Actor) = {}
      ]_vars

\* C7: the "MATCH CANCELED" side-message of CANCEL and of DROP is addressed
\* to the participant of the terminated game who is not the acting user.
TerminatedGames ==
    {i \in 1..Len(ongoing_games) :
        \A j \in 1..Len(ongoing_games') :
            ongoing_games'[j].game_id # ongoing_games[i].game_id}
OtherParticipant(game, u) ==
    IF game.host_id = u THEN game.opponent_id ELSE game.host_id
C7_CancelNotifiesTheOther ==
    [][((Executed("CancelGame") \/ Executed("Drop")) /\ lock = "free")
       => \A k \in 1..Len(last'.posted) :
             /\ last'.posted[k][1] # Actor
             /\ \E i \in TerminatedGames :
                   last'.posted[k][1] = OtherParticipant(ongoing_games[i], Actor)
      ]_vars

\* C8: when the socket read of an authenticated connection returns zero
\* bytes, the user is removed from connected_users and afterwards no game in
\* ongoing_games has the user as host.
C8_DisconnectCleansUp ==
    [][(/\ ncmd' = ncmd + 1
        /\ last'.step = "main"
        /\ last'.input = "eof"
        /\ lock = "free")
       => /\ ~Contains(connected_users', Actor)
          /\ pc'[last'.conn] = "done"
          /\ \A j \in 1..Len(ongoing_games') : ongoing_games'[j].host_id # Actor
      ]_vars

\* the connections that hold a live subscription to the bus
Subscribers ==
    {c \in Conns : /\ pc[c] \in LivePcs
                   /\ \E i \in 1..Len(senders) : senders[i].conn = c}

\* C9: the dispatcher's broadcast appends the routed message to the receiver
\* of every current subscriber, and a connection handler writes the bus
\* message it takes exactly when the message's recipient id is its own
\* local id; otherwise it discards it.
C9_FanOutAndFilter ==
    [][/\ (intake # <<>> /\ intake' = Tail(intake))
          => \A c \in Subscribers : rx'[c] = Append(rx[c], Head(intake))
       /\ (last'.step = "recv" /\ last'.bus # <<>>)
          => last'.bus_wrote =
                IF last'.bus[1][1] = local_id'[last'.conn]
                THEN <<last'.bus[1][2]>> ELSE <<>>
      ]_vars

\* a handler has written a message addressed to it while the same message
\* waits in the receiver of another connection
C9_Witness ==
    /\ last.step = "recv"
    /\ last.bus # <<>>
    /\ last.bus_wrote = <<last.bus[1][2]>>
    /\ last.out = "ok"
    /\ \E c \in Conns : c # last.conn /\ pc[c] \in LoopPcs /\ rx[c] = last.bus

\* C10: add_user returns 1 when nobody is connected and otherwise one more
\* than the largest connected id, never 0, and appends the id to
\* connected_users; as long as no user has been dropped the ids returned are
\* 1, 2, ..., n in this order.
C10_AddUserNextId ==
    [][/\ issued' # issued
          => LET id == issued'[Len(issued')]
             IN  /\ issued' = Append(issued, id)
                 /\ id # 0
                 /\ IF connected_users = <<>> THEN id = 1
                    ELSE /\ Contains(connected_users, id - 1)
                         /\ \A i \in 1..Len(connected_users) : connected_users[i] < id
                 /\ connected_users' = Append(connected_users, id)
                 /\ local_id'[last'.conn] = id
       /\ Len(connected_users') = Len(issued')
          => issued' = [i \in 1..Len(issued') |-> i]
      ]_vars

\* add_user has been called twice with no drop in between
C10_Witness == issued = <<1, 2>> /\ connected_users = <<1, 2>>

\* C11: the IDs add_user returns are strictly increasing over the life of
\* the server, so no ID is ever returned twice, whatever was dropped in
\* between.
C11_IdsNeverReused ==
    \A i, j \in 1..Len(issued) : i < j => issued[i] < issued[j]

(***************************************************************************)
(* The registry alone: ServerData's add_user and drop_user called in any   *)
(* order on a fresh registry, as a caller holding the write lock does.     *)
(* `last` records the call, its argument and its result.                   *)
(***************************************************************************)
\* the ids a caller passes to drop_user: 0 (no user) and the ids in use
DropIds == 0..MaxConns

Call(op, arg, ok, err) ==
    [conn |-> 0, step |-> op, arg |-> arg, ok |-> ok, err |-> err]

CallAddUser ==
    /\ Len(connected_users) < MaxConns
    /\ Len(issued) < MaxCmds
    /\ \E r \in {add_user(connected_users)} :
           /\ connected_users' = r.users
           /\ issued' = Append(issued, r.id)
           /\ last' = Call("add_user", 0, TRUE, <<>>)
    /\ UNCHANGED <<ongoing_games, lock, clock, pc, local_id, rx, intake, senders, ncmd,
                   hold, unread>>

CallDropUser(id) ==
    /\ ncmd < MaxCmds
    /\ \E r \in {drop_user(connected_users, id)} :
           /\ connected_users' = r.users
           /\ last' = Call("drop_user", id, r.ok, r.err)
    /\ ncmd' = ncmd + 1
    /\ UNCHANGED <<ongoing_games, lock, clock, pc, local_id, rx, intake, senders, issued,
                   hold, unread>>

NextRegistry ==
    \/ CallAddUser
    \/ \E id \in DropIds : CallDropUser(id)

SpecRegistry == Init /\ [][NextRegistry]_vars

\* C12: drop_user of an ID that is not in connected_users returns the error
\* "user <id> doesn't exist" and changes neither connected_users nor
\* ongoing_games; drop_user of an ID that is in it succeeds and removes it,
\* so that a second drop_user of the same ID fails and changes nothing.
C12_DropUserAbsent ==
    [][\A id \in DropIds :
          (last'.step = "drop_user" /\ last'.arg = id /\ ncmd' = ncmd + 1)
          => /\ ongoing_games' = ongoing_games
             /\ IF Contains(connected_users, id)
                THEN /\ last'.ok
                     /\ ~Contains(connected_users', id)
                     /\ drop_user(connected_users', id).ok = FALSE
                     /\ drop_user(connected_users', id).users = connected_users'
                ELSE /\ ~last'.ok
                     /\ last'.err = T_USER_ \o Dec(id) \o T__NOT_EXIST
                     /\ connected_users' = connected_users
      ]_vars

\* drop_user has just failed on an ID that an earlier drop_user removed
C12_Witness ==
    /\ last.step = "drop_user" /\ ~last.ok
    /\ last.arg \in {issued[i] : i \in 1..Len(issued)}
    /\ ~Contains(connected_users, last.arg)

\* the step just taken is a round of validate_user on connection c that
\* received the command `cmd`
Handshook(c, cmd) ==
    /\ pc[c] = "validate"
    /\ last'.step = "handshake" /\ last'.conn = c /\ last'.kind # "Continue"
    /\ last'.cmd = cmd

\* C13: a handshake with the correct password calls add_user once and has
\* the Command frame "ID <id>" to reply, for the ID add_user returned ("ID 1"
\* for the first client of a fresh server); the rest of the handshake calls
\* add_user no more, gives that reply to the socket, and the handler enters
\* its main loop with that ID as its local id.
C13_HandshakeRepliesId ==
    [][\A c \in Conns :
          /\ (Handshook(c, Cmd("Message", Password)) /\ lock = "free")
             => LET id == add_user(connected_users).id
                IN  /\ issued' = Append(issued, id)
                    /\ connected_users' = Append(connected_users, id)
                    /\ local_id'[c] = id
                    /\ pc'[c] = "id"
                    /\ last'.answer = <<new_command(T_ID_ \o Dec(id))>>
          /\ (pc[c] = "id" /\ pc'[c] # "id")
             => /\ last'.wrote = hold[c].reply
                /\ issued' = issued
                /\ local_id'[c] = local_id[c]
          /\ (pc[c] = "joined" /\ pc'[c] = "main")
             => issued' = issued /\ local_id'[c] = local_id[c]
      ]_vars

\* the server with clients that send any frame before they are
\* authenticated, and then list the users, drop and disconnect
NextAuth ==
    \/ \E c \in Conns : Accept(c)
    \/ \E c \in Conns : Join(c, AuthInputs, Outcomes)
    \/ \E c \in Conns : Serve(c, UserInputs)

SpecAuth == Init /\ [][NextAuth]_vars

\* the step just taken is a round of validate_user on connection c that
\* received a frame and ended the handshake
HandshakeStep(c) ==
    /\ pc[c] = "validate"
    /\ last'.step = "handshake" /\ last'.conn = c /\ last'.kind # "Continue"
    /\ last'.input = "data"

\* C14: a handshake frame that is a Message with a payload other than the
\* password, or a Command or Unknown frame, is answered with an error reply
\* and ends the handler; connected_users is unchanged, no ID is allocated,
\* and the other connections are unaffected.
C14_FailedHandshake ==
    [][\A c \in Conns :
          (/\ HandshakeStep(c)
           /\ lock = "free"
           /\ last'.cmd # Cmd("Message", Password))
          => /\ last'.wrote =
                  <<new_message(IF last'.cmd.name = "Message"
                                THEN T_ERR_PASSWORD ELSE T_ERR_COMMAND)>>
             /\ pc'[c] = "done"
             /\ local_id'[c] = 0
             /\ connected_users' = connected_users
             /\ issued' = issued
             /\ ongoing_games' = ongoing_games
             /\ \A d \in Conns \ {c} :
                    pc'[d] = pc[d] /\ local_id'[d] = local_id[d] /\ rx'[d] = rx[d]
      ]_vars

\* a frame of unknown type has just ended a handshake while another client
\* is authenticated
C14_Witness ==
    /\ last.step = "handshake" /\ last.cmd.name = "Unknown"
    /\ Frames[Data(serialize(UnknownFrame))].cmd = last.cmd
    /\ last.wrote = <<new_message(T_ERR_COMMAND)>>
    /\ pc[last.conn] = "done"
    /\ \E d \in Conns : pc[d] \in LoopPcs /\ Contains(connected_users, local_id[d])

\* the index of the first game in which u is host or opponent, 0 for none
FirstGameOf(games, u) ==
    IF GamesOf(games, u) = {} THEN 0 ELSE Min(GamesOf(games, u))

\* the index of the first game u hosts, 0 for none
FirstHostedBy(games, u) ==
    LET S == {i \in 1..Len(games) : games[i].host_id = u}
    IN  IF S = {} THEN 0 ELSE Min(S)

\* C17: a GUESS by a user whose first game is one they host is answered
\* with a recoverable error, and every game that user hosts keeps its
\* attempts, last_guess and state.
C17_HostCannotGuess ==
    [][(/\ Executed("Guess")
        /\ lock = "free"
        /\ FirstGameOf(ongoing_games, Actor) # 0
        /\ ongoing_games[FirstGameOf(ongoing_games, Actor)].host_id = Actor)
       => /\ last'.kind = "ErrorMessage"
          /\ \A i \in 1..Len(ongoing_games) :
                 ongoing_games[i].host_id = Actor
                 => \E j \in 1..Len(ongoing_games') :
                        /\ ongoing_games'[j].game_id = ongoing_games[i].game_id
                        /\ ongoing_games'[j].attempts = ongoing_games[i].attempts
                        /\ ongoing_games'[j].last_guess = ongoing_games[i].last_guess
                        /\ ongoing_games'[j].game_state = ongoing_games[i].game_state
      ]_vars

\* C18: a HINT by a user who hosts no game is answered with a recoverable
\* error, changes the last_hint of no game and posts no side-message.
C18_HintNeedsHostedGame ==
    [][(/\ Executed("Hint")
        /\ lock = "free"
        /\ FirstHostedBy(ongoing_games, Actor) = 0)
       => /\ last'.kind = "ErrorMessage"
          /\ Len(ongoing_games') = Len(ongoing_games)
          /\ \A i \in 1..Len(ongoing_games) :
                 ongoing_games'[i].last_hint = ongoing_games[i].last_hint
          /\ last'.posted = <<>>
      ]_vars

\* C19: a HINT by the host of an Ongoing game changes the last_hint of that
\* game and nothing else in the registry; the host gets one reply and one
\* side-message, the Message frame "HINT <text>", is posted for the game's
\* opponent.
C19_HintChangesOnlyLastHint ==
    [][\A h \in 1..Len(ongoing_games) :
          (/\ Executed("Hint")
           /\ lock = "free"
           /\ h = FirstHostedBy(ongoing_games, Actor)
           /\ ongoing_games[h].game_state = Ongoing)
          => /\ ongoing_games' = [ongoing_games EXCEPT ![h].last_hint = last'.cmd.data]
             /\ connected_users' = connected_users
             /\ Len(last'.answer) = 1
             /\ last'.posted = <<<<ongoing_games[h].opponent_id,
                                   new_message(T_HINT_ \o last'.cmd.data)>>>>
      ]_vars

(***************************************************************************)
(* The command interpreter alone: ServerCommandList::execute called with   *)
(* any local id on a registry that add_user and drop_user fill, as the     *)
(* handlers call it one at a time under the registry lock.  `last` records *)
(* the call: the local id, the command, the kind of result, the frame      *)
(* returned and the pairs sent on thread_send.  STARTGAME sends after it   *)
(* has released the lock, so other calls may come between its registry     *)
(* change and its send.                                                    *)
(***************************************************************************)
LocalIds == 1..MaxConns

Executes(local, cmd, kind, reply, posted) ==
    [conn |-> 0, step |-> "execute", arg |-> local, cmd |-> cmd, kind |-> kind,
     reply |-> reply, posted |-> posted]

\* the intake channel of the callers holds two items at least, so that the
\* order of two sends shows
InterpreterQueue == MaxQueue + 1

\* execute up to its return, or up to the thread_send.send of the arm that
\* sends after it has released the write lock; the caller `local` is one
\* thread
CallExecute(local, input) ==
    /\ ncmd < MaxCmds
    /\ hold[local].late = <<>>
    /\ \E relock \in Relocks(input), checks \in OverflowChecks(input) :
       \E e \in {execute(Frames[input].cmd, connected_users, ongoing_games, lock,
                         local, clock, checks, relock)} :
       \E late \in {e.kind = "Ok" /\ SendsAfterRelease(Frames[input].cmd)} :
           /\ late \/ Len(intake) + Len(e.posted) <= InterpreterQueue
           /\ e.created > 0 => clock <= MaxGames
           /\ connected_users' = e.users
           /\ ongoing_games' = e.games
           /\ lock' = e.lock
           /\ clock' = clock + e.created
           /\ intake' = IF late THEN intake ELSE intake \o e.posted
           /\ hold' = [hold EXCEPT ![local].late = IF late THEN e.posted ELSE <<>>]
           /\ last' = Executes(local, Frames[input].cmd, e.kind, e.reply, e.posted)
    /\ ncmd' = ncmd + 1
    /\ UNCHANGED <<pc, local_id, rx, senders, issued, unread>>

\* execute: the thread_send.send of the caller that has released the write
\* lock, and the return of execute
CallSend(local) ==
    /\ hold[local].late # <<>>
    /\ Len(intake) + Len(hold[local].late) <= InterpreterQueue
    /\ intake' = intake \o hold[local].late
    /\ hold' = [hold EXCEPT ![local].late = <<>>]
    /\ UNCHANGED <<connected_users, ongoing_games, lock, clock, pc, local_id, rx,
                   senders, issued, ncmd, last, unread>>

NextInterpreter ==
    \/ CallAddUser
    \/ \E id \in DropIds : CallDropUser(id)
    \/ \E local \in LocalIds, input \in GameInputs : CallExecute(local, input)
    \/ \E local \in LocalIds : CallSend(local)
    \/ Dispatch

SpecInterpreter == Init /\ [][NextInterpreter]_vars

\* the step just taken executed the named command for the user Caller
Ran(name) == ncmd' = ncmd + 1 /\ last'.step = "execute" /\ last'.cmd.name = name
Caller == last'.arg

\* the step just taken executed "STARTGAME <t> <s>"
StartedGame(t, s) == Ran("StartGame") /\ last'.cmd.data = Dec(t) \o SP \o s

\* C15: STARTGAME <t> <s> by user h, with t connected and different from h,
\* appends exactly one game (host h, opponent t, secret s, 3 attempts,
\* Ongoing), returns the Command frame "REQUESTACK" and posts exactly one
\* side-message, the Command frame "REQUESTEDGAME", for t: the caller sends
\* it, at the end of the intake channel, once it has released the lock.
C15_StartGameCreates ==
    [][/\ \A u \in LocalIds :
             (hold[u].late # <<>> /\ hold'[u].late = <<>>)
             => intake' = intake \o hold[u].late
       /\ \A t \in TargetIds, s \in Secrets :
          (/\ StartedGame(t, s)
           /\ lock = "free"
           /\ Contains(connected_users, t)
           /\ t # Caller)
          => /\ Len(ongoing_games') = Len(ongoing_games) + 1
             /\ SubSeq(ongoing_games', 1, Len(ongoing_games)) = ongoing_games
             /\ LET g == ongoing_games'[Len(ongoing_games')]
                IN  /\ g.host_id = Caller
                    /\ g.opponent_id = t
                    /\ g.secret = s
                    /\ g.attempts = 3
                    /\ g.game_state = Ongoing
             /\ last'.kind = "Ok"
             /\ last'.reply = new_command(T_REQUESTACK)
             /\ last'.posted = <<<<t, new_command(T_REQUESTEDGAME)>>>>
             /\ hold'[Caller].late = last'.posted
             /\ intake' = intake
      ]_vars

\* a second game has just been appended by a STARTGAME
C15_Witness ==
    /\ last.step = "execute" /\ last.cmd.name = "StartGame" /\ last.kind = "Ok"
    /\ Len(ongoing_games) = 2
    /\ ongoing_games[2].host_id = last.arg
    /\ last.posted = <<<<ongoing_games[2].opponent_id, new_command(T_REQUESTEDGAME)>>>>

\* C16: STARTGAME whose target is not connected, or is the acting user,
\* returns a recoverable error, appends no game and posts nothing; so every
\* game has a host different from its opponent, and the opponent of a game
\* was connected when the game was created.
C16_StartGameRejects ==
    [][/\ \A t \in TargetIds, s \in Secrets :
             (/\ StartedGame(t, s)
              /\ lock = "free"
              /\ (~Contains(connected_users, t) \/ t = Caller))
             => /\ last'.kind = "ErrorMessage"
                /\ ongoing_games' = ongoing_games
                /\ last'.posted = <<>>
       /\ \A i \in 1..Len(ongoing_games') :
             ongoing_games'[i].host_id # ongoing_games'[i].opponent_id
       /\ Len(ongoing_games') > Len(ongoing_games)
          => Contains(connected_users, ongoing_games'[Len(ongoing_games')].opponent_id)
      ]_vars

\* a STARTGAME naming the acting user itself, who is connected, has just
\* been refused while the registry holds a game
C16_Witness ==
    /\ last.step = "execute" /\ last.cmd.name = "StartGame"
    /\ last.kind = "ErrorMessage"
    /\ last.cmd.data = Dec(last.arg) \o SP \o <<97>>
    /\ Contains(connected_users, last.arg)
    /\ ongoing_games # <<>>
    /\ last.posted = <<>>

\* the sequence without its i-th element
RemoveAt(seq, i) ==
    [j \in 1..(Len(seq) - 1) |-> IF j < i THEN seq[j] ELSE seq[j + 1]]

\* C20: CANCEL by a user who takes part in a game removes that game (the
\* first one the user takes part in) and nothing else, and returns the
\* Command frame "CANCELED"; CANCEL by a user who takes part in no game
\* returns a recoverable error, changes no game and posts nothing.
C20_CancelRemovesOneGame ==
    [][(Ran("CancelGame") /\ lock = "free")
       => IF FirstGameOf(ongoing_games, Caller) # 0
          THEN /\ ongoing_games' =
                      RemoveAt(ongoing_games, FirstGameOf(ongoing_games, Caller))
               /\ connected_users' = connected_users
               /\ last'.kind = "Ok"
               /\ last'.reply = new_command(T_CANCELED)
          ELSE /\ last'.kind = "ErrorMessage"
               /\ ongoing_games' = ongoing_games
               /\ connected_users' = connected_users
               /\ last'.posted = <<>>
      ]_vars

\* a CANCEL has just removed one of two games
C20_Witness ==
    /\ last.step = "execute" /\ last.cmd.name = "CancelGame" /\ last.kind = "Ok"
    /\ last.reply = new_command(T_CANCELED)
    /\ Len(ongoing_games) = 1
    /\ clock = 3

\* C21: no sequence of frames leaves the registry lock held for ever or
\* poisoned, so a handler that fails never stops the others from being
\* served.
C21_LockNeverStuck == lock = "free"

\* the server with clients that send direct messages and malformed frames
NextFrames ==
    \/ \E c \in Conns : Accept(c)
    \/ \E c \in Conns : Join(c, PasswordInputs, Outcomes)
    \/ \E c \in Conns : Serve(c, FrameInputs)
    \/ Dispatch

SpecFrames == Init /\ [][NextFrames]_vars

\* C22: a DM whose argument holds fewer than two words (only an id, or only
\* whitespace) is answered with an error reply; the sender's handler keeps
\* running, the sender stays in connected_users and nothing is posted.
C22_BadDmIsRecoverable ==
    [][(/\ Executed("DirectMessage")
        /\ lock = "free"
        /\ Contains(connected_users, Actor)
        /\ last'.cmd.data # <<>>
        /\ Len(split_whitespace(last'.cmd.data)) < 2)
       => /\ last'.kind = "ErrorMessage"
          /\ Len(last'.answer) = 1
          /\ pc'[last'.conn] \in LoopPcs
          /\ Contains(connected_users', Actor)
          /\ last'.posted = <<>>
      ]_vars

\* connection c has just read `input` in its main loop
Served(c, input) ==
    \E relock \in Relocks(input), checks \in OverflowChecks(input),
       out \in Outcomes :
        Read(c, input, relock, checks, out, MaxQueue)

\* C23: a frame with bytes that are not valid UTF-8 is a recoverable error:
\* the handler that reads it keeps running and its user stays connected.
C23_NonUtf8IsRecoverable ==
    [][\A c \in Conns :
          (Served(c, NonUtf8Frame) /\ lock = "free" /\ Contains(connected_users, local_id[c]))
          => /\ pc'[c] \in LoopPcs
             /\ Contains(connected_users', local_id[c])
      ]_vars

\* C24: a frame whose length prefix plus 3 exceeds the 4096 bytes of the read
\* buffer is clamped or rejected, and the handler that reads it keeps
\* running.
C24_OversizeLengthIsRejected ==
    [][\A c \in Conns :
          (Served(c, OversizeFrame) /\ lock = "free")
          => /\ pc'[c] \in LoopPcs
             /\ last'.kind \in {"None", "Ok", "ErrorMessage"}
      ]_vars

\* the first index at or after i at which a whitespace char of s starts
\* (ws = TRUE), or a char that is none (ws = FALSE); Len(s) + 1 when there
\* is none
NextIndex(s, i, ws) ==
    LET S == {j \in i..Len(s) : ~IsCont(s[j]) /\ IsWhitespace(char_at(s, j)) = ws}
    IN  IF S = {} THEN Len(s) + 1 ELSE Min(S)

\* the argument of a DM without its first word, the id, and the whitespace
\* around it
TextAfterId(data) ==
    LET id_start == NextIndex(data, 1, FALSE)
        id_end == NextIndex(data, id_start, TRUE)
    IN  SubSeq(data, NextIndex(data, id_end, FALSE), Len(data))

\* C27: DM <id> <text> with a non-empty text posts exactly one side-message,
\* addressed to <id>, whose payload is the whole <text> after the id,
\* further words included; the sender gets one acknowledgement, and
\* connected_users and ongoing_games are unchanged.
C27_DmRelaysWholeText ==
    [][(/\ Executed("DirectMessage")
        /\ lock = "free"
        /\ Len(split_whitespace(last'.cmd.data)) >= 2
        /\ parse_u64(split_whitespace(last'.cmd.data)[1]).ok)
       => /\ last'.posted =
                <<<<parse_u64(split_whitespace(last'.cmd.data)[1]).value,
                    new_message(TextAfterId(last'.cmd.data))>>>>
          /\ last'.kind = "Ok"
          /\ Len(last'.answer) = 1
          /\ connected_users' = connected_users
          /\ ongoing_games' = ongoing_games
      ]_vars

(***************************************************************************)
(* The codec alone: BinaryMessage::serialize applied to messages built by  *)
(* new_command and new_message, and BinaryMessage::deserialize applied to  *)
(* the bytes it produced.  `last` records the call.                        *)
(***************************************************************************)
\* the payloads: every sequence of at most MaxLen bytes of PayloadBytes, and
\* runs of "a" whose lengths lie around a byte boundary of the prefix and at
\* the largest length the prefix can hold
PayloadBytes == {32, 97, 255}
LongLengths == {255, 256, 257, 65535}
Payloads ==
    UNION {[1..n -> PayloadBytes] : n \in 0..MaxLen}
    \cup {[i \in 1..n |-> 97] : n \in LongLengths}
Messages == {new_command(p) : p \in Payloads} \cup {new_message(p) : p \in Payloads}

CallSerialize(m) ==
    /\ last' = [conn |-> 0, step |-> "serialize", msg |-> m, bytes |-> serialize(m),
                panic |-> FALSE]
    /\ UNCHANGED <<connected_users, ongoing_games, lock, clock, pc, local_id, rx,
                   intake, senders, issued, ncmd, hold, unread>>

CallDeserialize ==
    /\ last.step = "serialize"
    /\ \E d \in {deserialize(last.bytes)} :
           last' = [conn |-> 0, step |-> "deserialize", msg |-> d.msg,
                    bytes |-> last.bytes, panic |-> d.panic]
    /\ UNCHANGED <<connected_users, ongoing_games, lock, clock, pc, local_id, rx,
                   intake, senders, issued, ncmd, hold, unread>>

NextCodec ==
    \/ \E m \in Messages : CallSerialize(m)
    \/ CallDeserialize

SpecCodec == Init /\ [][NextCodec]_vars

\* C25: serialize(m) is the length as two big-endian bytes, the type tag
\* (1 for Command, 2 for Chat) and the payload; and deserialize of these
\* bytes has the type, the length and the payload of m.
C25_RoundTrip ==
    [][/\ last'.step = "serialize"
          => LET m == last'.msg
             IN  /\ Len(m.message) <= 65535
                 /\ last'.bytes =
                        <<Len(m.message) \div 256, Len(m.message) % 256,
                          IF m.message_type = MT_Command THEN 1 ELSE 2>>
                        \o m.message
       /\ (last'.step = "deserialize" /\ last.step = "serialize")
          => /\ ~last'.panic
             /\ last'.msg.message_type = last.msg.message_type
             /\ last'.msg.length = last.msg.length
             /\ last'.msg.message = last.msg.message
      ]_vars

\* a Command of 256 bytes, whose length needs the high byte of the prefix,
\* has just been decoded
C25_Witness ==
    /\ last.step = "deserialize"
    /\ last.msg.message_type = MT_Command
    /\ Len(last.msg.message) = 256
    /\ last.bytes[1] = 1 /\ last.bytes[2] = 0

(***************************************************************************)
(* The game operations of the registry alone: ServerData's start_game and  *)
(* update_game_guess called by connected users, ncmd counting the calls.   *)
(* A call that panics poisons the lock its caller holds, and no call       *)
(* follows.                                                                *)
(***************************************************************************)
\* the secret and the guesses of the callers: the secret is a letter outside
\* ASCII, the guesses that letter in its other case and a different one
GuessSecrets == {<<195, 169>>}              \* "\u{e9}"
GuessWords == {<<195, 137>>, <<98>>}        \* "\u{c9}", "b"

\* the ids a caller passes to update_game_guess: those of the games, and 0
GuessIds == {ongoing_games[i].game_id : i \in 1..Len(ongoing_games)} \cup {0}

CallStartGame(id_host, id_guest, secret) ==
    /\ lock = "free"
    /\ clock <= MaxGames
    /\ ncmd < MaxCmds
    /\ \E r \in {start_game(connected_users, ongoing_games, id_host, id_guest,
                            secret, clock)} :
           /\ ongoing_games' = r.games
           /\ clock' = IF r.ok THEN clock + 1 ELSE clock
           /\ last' = Call("start_game", id_guest, r.ok, r.err)
    /\ ncmd' = ncmd + 1
    /\ UNCHANGED <<connected_users, lock, pc, local_id, rx, intake, senders, issued,
                   hold, unread>>

CallUpdateGuess(id, guess, checks) ==
    /\ lock = "free"
    /\ ncmd < MaxCmds
    /\ \E r \in {update_game_guess(ongoing_games, id, guess, checks)} :
           /\ ongoing_games' = r.games
           /\ lock' = IF r.panic THEN "poisoned" ELSE lock
           /\ last' = [conn |-> 0, step |-> "update_game_guess", arg |-> id,
                       guess |-> guess, ok |-> r.ok, panic |-> r.panic,
                       state |-> r.state, err |-> r.err]
    /\ ncmd' = ncmd + 1
    /\ UNCHANGED <<connected_users, clock, pc, local_id, rx, intake, senders, issued,
                   hold, unread>>

NextGuess ==
    \/ lock = "free" /\ CallAddUser
    \/ \E h \in LocalIds, g \in TargetIds, s \in GuessSecrets :
           user_exists(connected_users, h) /\ CallStartGame(h, g, s)
    \/ \E id \in GuessIds, guess \in GuessWords, checks \in BOOLEAN :
           CallUpdateGuess(id, guess, checks)

SpecGuess == Init /\ [][NextGuess]_vars

\* C26: update_game_guess with the id of no game returns an error and
\* changes nothing; with a guess equal to the secret ignoring case it sets
\* the game to Victory and returns Victory, whatever the attempts, which it
\* leaves alone; with a wrong guess on a game that has attempts left it
\* takes one attempt, records last_guess and returns Defeat when no attempt
\* is left and the state the game had otherwise (Ongoing, Ongoing, Defeat on
\* a fresh game).
C26_GuessTransition ==
    [][\A id \in GuessIds :
          (last'.step = "update_game_guess" /\ ncmd' = ncmd + 1 /\ last'.arg = id)
          => LET i == get_game_mut_ref(ongoing_games, id)
                 g == ongoing_games[i]
                 guess == last'.guess
             IN  IF i = 0
                 THEN /\ ~last'.ok
                      /\ last'.err = T_GUESS_NO_GAME
                      /\ ongoing_games' = ongoing_games
                 ELSE IF to_lowercase(guess) = to_lowercase(g.secret)
                 THEN /\ last'.ok /\ last'.state = Victory
                      /\ ongoing_games' =
                             [ongoing_games EXCEPT ![i].game_state = Victory]
                 ELSE g.attempts \in 1..3
                      => /\ last'.ok
                         /\ last'.state = IF g.attempts = 1 THEN Defeat ELSE g.game_state
                         /\ g.game_state = Ongoing /\ g.attempts > 1
                            => last'.state = Ongoing
                         /\ ongoing_games' =
                                [ongoing_games EXCEPT
                                    ![i].attempts = g.attempts - 1,
                                    ![i].last_guess = guess,
                                    ![i].game_state = last'.state]
      ]_vars

\* the third wrong guess on a game has just returned Defeat
C26_Witness ==
    /\ last.step = "update_game_guess" /\ last.ok /\ last.state = Defeat
    /\ \E i \in 1..Len(ongoing_games) :
           /\ ongoing_games[i].game_id = last.arg
           /\ ongoing_games[i].attempts = 0
           /\ ongoing_games[i].last_guess = last.guess
           /\ ongoing_games[i].game_state = Defeat

(***************************************************************************)
(* The server with clients that only send the commands that touch nothing: *)
(* HEARTBEAT, REQUEST, a command of unknown name, a frame of unknown type  *)
(* and chat messages; they may also disconnect.                            *)
(***************************************************************************)
QuietInputs ==
    {Data(serialize(new_command(t))) : t \in {S_HEARTBEAT, S_REQUEST, <<120>>}}
    \cup {Data(serialize(UnknownFrame))}
    \cup {Data(serialize(new_message(p))) : p \in {Password, WrongPassword}}
    \cup {EOF, WouldBlock}

NextQuiet ==
    \/ \E c \in Conns : Accept(c)
    \/ \E c \in Conns : Join(c, PasswordInputs, Outcomes)
    \/ \E c \in Conns : Serve(c, QuietInputs)

SpecQuiet == Init /\ [][NextQuiet]_vars

QuietCommands == {"HeartBeat", "Message", "RequestOpponents", "Unknown"}

\* connection c has just come out of the send_response of its reply
Replied(c) == pc[c] = "reply" /\ pc'[c] # "reply"

\* the step just taken read one of the commands that touch nothing
ReadQuiet(c) ==
    /\ last'.step = "main" /\ last'.conn = c /\ ncmd' = ncmd + 1
    /\ last'.cmd.name \in QuietCommands

\* the execution of such a command changes nothing, sends nothing and leaves
\* one reply, a Message frame, to write
QuietExecution(c) ==
    /\ connected_users' = connected_users
    /\ ongoing_games' = ongoing_games
    /\ intake' = intake
    /\ last'.posted = <<>>
    /\ Len(last'.answer) = 1
    /\ last'.answer[1].message_type = MT_Message
    /\ last'.cmd.name = "HeartBeat"
       => last'.answer[1] = new_message(T_HEARTBEAT_OK)
    /\ last'.cmd.name = "Unknown"
       => last'.answer[1] = new_message(T_UNKNOWN_CMD)
    /\ pc'[c] = "reply"

\* C28: a HEARTBEAT, a chat frame, a REQUEST or an unrecognized command read
\* by the main loop leaves connected_users and ongoing_games as they were,
\* posts nothing to the intake channel, and its one reply is written to the
\* connection that sent it.
C28_AlwaysOneReply ==
    [][\A c \in Conns :
          /\ ReadQuiet(c) => QuietExecution(c)
          /\ (Replied(c) /\ hold[c].cmd.name \in QuietCommands)
             => /\ connected_users' = connected_users
                /\ ongoing_games' = ongoing_games
                /\ intake' = intake
                /\ last'.wrote = hold[c].reply
                /\ last'.out = "ok"
      ]_vars

LockingCommands == {"Guess", "Hint", "CancelGame", "Drop", "StartGame"}

\* the step just taken is a wrong GUESS on a game with no attempt left, where
\* the u8 subtraction overflows
GuessUnderflows ==
    LET i == FirstGameOf(ongoing_games, Actor)
    IN  /\ last'.cmd.name = "Guess"
        /\ i # 0
        /\ ongoing_games[i].attempts = 0
        /\ ~guess_matches(last'.cmd.data, ongoing_games[i].secret)

\* C29: GUESS, HINT, CANCEL, DROP and STARTGAME each do their lookup, their
\* mutation and their decision within one acquisition of the registry lock:
\* the command asks for the lock once and has released it when it returns,
\* and a wrong GUESS on a game with attempts left takes exactly one attempt
\* from the game it looked up.
C29_OneAcquisition ==
    [][\A n \in LockingCommands :
          (Executed(n) /\ lock = "free" /\ ~GuessUnderflows)
          => /\ lock' = "free"
             /\ LET i == FirstGameOf(ongoing_games, Actor)
                IN  (/\ n = "Guess"
                     /\ i # 0
                     /\ ongoing_games[i].attempts > 0
                     /\ ~guess_matches(last'.cmd.data, ongoing_games[i].secret))
                    => \A j \in 1..Len(ongoing_games') :
                           ongoing_games'[j].game_id = ongoing_games[i].game_id
                           => ongoing_games'[j].attempts = ongoing_games[i].attempts - 1
      ]_vars

(***************************************************************************)
(* The server with clients that send numbered direct messages: the k-th    *)
(* command of the run is "DM <id> <k>", so that the text of an item tells  *)
(* when it was posted.  The channels hold up to MaxQueue + 1 items, two at *)
(* least, so that items wait behind one another.                           *)
(***************************************************************************)
RouterCapacity == MaxQueue + 1
\* the number of direct messages of a run
RouterPosts == MaxQueue + 1

StampedInputs ==
    (IF ncmd < RouterPosts THEN {StampedDm(i, ncmd) : i \in 1..MaxConns} ELSE {})
    \cup {WouldBlock}

ServeStamped(c) == ServeWithin(c, StampedInputs, Outcomes, RouterCapacity)

NextRouter ==
    \/ \E c \in Conns : Accept(c)
    \/ \E c \in Conns : Join(c, {Data(serialize(new_message(Password)))}, Outcomes)
    \/ \E c \in Conns : ServeStamped(c)
    \/ DispatchWithin(RouterCapacity)

SpecRouter == Init /\ [][NextRouter]_vars

\* the number a routed item carries
Stamp(item) == parse_u64(item[2].message).value
Stamps(q) == [i \in 1..Len(q) |-> Stamp(q[i])]
Increasing(q) == \A i, j \in 1..Len(q) : i < j => q[i] < q[j]

\* C30: the intake channel changes only by a post at its end or by the
\* dispatcher taking its first item, and the dispatcher appends the item it
\* takes, unfiltered, to the queue of every live subscriber and to no other
\* queue; a handler takes the first item of its queue.  Hence the items
\* waiting for a subscriber, followed by those still in the intake channel,
\* are in posting order with no item twice, and the item a handler has just
\* taken was posted before every item still waiting for it.
C30_DispatchInOrder ==
    [][/\ intake' # intake
          => \/ \E item \in {last'.posted} : Len(item) = 1 /\ intake' = intake \o item
             \/ /\ intake' = Tail(intake)
                /\ \A c \in Conns :
                       rx'[c] = IF c \in Subscribers
                                THEN Append(rx[c], Head(intake)) ELSE rx[c]
       /\ \A c \in Conns :
            /\ rx'[c] # rx[c] /\ intake' = intake
               => (rx'[c] = Tail(rx[c]) /\ last'.bus = <<Head(rx[c])>>) \/ rx'[c] = <<>>
            /\ Increasing(Stamps(rx'[c] \o intake'))
            /\ (last'.conn = c /\ last'.step = "recv" /\ last'.bus # <<>>)
               => \A i \in 1..Len(rx'[c]) : Stamp(last'.bus[1]) < Stamp(rx'[c][i])
      ]_vars

\* two items posted by connection 1 for user 2 wait, in posting order, in the
\* queue of connection 2
C30_Witness ==
    /\ Len(rx[2]) = 2
    /\ rx[2][1][1] = 2 /\ rx[2][2][1] = 2
    /\ Stamp(rx[2][1]) < Stamp(rx[2][2])
    /\ pc[1] \in LoopPcs /\ pc[2] \in LoopPcs

(***************************************************************************)
(* The server with clients that send a few direct messages, fail the       *)
(* handshake or disconnect, so that the bus holds senders whose Receiver   *)
(* is gone.                                                                *)
(***************************************************************************)
PruneCmds == MaxQueue + 2

NextPrune ==
    \/ \E c \in Conns : Accept(c)
    \/ \E c \in Conns : Join(c, PasswordInputs, Outcomes)
    \/ \E c \in Conns : Serve(c, IF ncmd < PruneCmds THEN BusInputs ELSE {WouldBlock})
    \/ Dispatch

SpecPrune == Init /\ [][NextPrune]_vars

\* senders without those whose connection is not in `keep`, in order
SendersOf(snd, keep) == SelectSeq(snd, LAMBDA s : s.conn \in keep)

\* C31: a broadcast removes exactly the senders whose Receiver was dropped
\* and delivers the message to every other subscriber; no other step removes
\* a sender, so a connection whose Receiver is alive always has its sender;
\* the ids of the current senders are pairwise different.
C31_BroadcastPrunes ==
    [][/\ (intake # <<>> /\ intake' = Tail(intake))
          => /\ senders' = SendersOf(senders, Alive)
             /\ \A i \in 1..Len(senders) :
                    senders[i].conn \in Alive
                    => rx'[senders[i].conn] = Append(rx[senders[i].conn], Head(intake))
       /\ ~(intake # <<>> /\ intake' = Tail(intake))
          => \A i \in 1..Len(senders) : \E j \in 1..Len(senders') : senders'[j] = senders[i]
       /\ \A c \in Conns :
              pc'[c] \in LivePcs
              => \E j \in 1..Len(senders') : senders'[j].conn = c
       /\ \A i, j \in 1..Len(senders') : i # j => senders'[i].id # senders'[j].id
      ]_vars

\* a broadcast has removed the sender of a finished connection and delivered
\* the message to the connection that remains
C31_Witness ==
    /\ \E c \in Conns : pc[c] = "done" /\ \A i \in 1..Len(senders) : senders[i].conn # c
    /\ \E c \in Conns : pc[c] \in LoopPcs /\ rx[c] # <<>>
                        /\ \E i \in 1..Len(senders) : senders[i].conn = c

\* C32: an iteration of the main loop of a handler leaves no message in the
\* handler's bus subscription: all that were pending when the iteration
\* began are taken before the socket is read.
C32_BusDrainedBeforeRead ==
    [][\A c \in Conns : (pc[c] = "main" /\ pc'[c] = "read") => rx'[c] = <<>>]_vars

(***************************************************************************)
(* The server with clients whose k-th command is "DM <id> <k>" or the      *)
(* malformed "DM x <k>": the reply to a well-formed one quotes k.          *)
(***************************************************************************)
ReplyCmds == MaxQueue + 1

ReplyInputs ==
    (IF ncmd < ReplyCmds
     THEN {StampedDm(i, ncmd) : i \in 1..MaxConns} \cup {BadIdDm(ncmd)} ELSE {})
    \cup {WouldBlock}

ServeReplies(c) == ServeWithin(c, ReplyInputs, Outcomes, RouterCapacity)

NextReplies ==
    \/ \E c \in Conns : Accept(c)
    \/ \E c \in Conns : Join(c, {Data(serialize(new_message(Password)))}, Outcomes)
    \/ \E c \in Conns : ServeReplies(c)
    \/ DispatchWithin(RouterCapacity)

SpecReplies == Init /\ [][NextReplies]_vars

\* C33: the iteration that reads the k-th command has exactly one reply to
\* write, the reply to that command (it quotes k, or it is the error about
\* the id), and the handler goes back to the start of its loop, where it
\* reads the next command, only when that reply has been written; an
\* iteration that reads no command writes no reply.  Replies therefore leave
\* in the order in which the commands were read.
C33_RepliesInOrder ==
    [][\A c \in Conns :
          /\ (last'.step = "main" /\ last'.conn = c /\ ncmd' = ncmd + 1)
             => /\ last'.kind \in {"Ok", "ErrorMessage"}
                /\ Len(last'.answer) = 1
                /\ \/ \E i \in 1..MaxConns :
                          /\ last'.cmd.data = Dec(i) \o SP \o Dec(ncmd)
                          /\ last'.kind = "Ok"
                          /\ last'.answer[1] =
                               new_message(T_OK_SENT_ \o Dec(ncmd) \o T__TO_ID_ \o Dec(i))
                   \/ /\ last'.cmd.data = <<120>> \o SP \o Dec(ncmd)
                      /\ last'.kind = "ErrorMessage"
                      /\ last'.answer[1] = new_message(T_ERR_VALID_ID \o T_PARSE_INVALID)
                /\ last'.wrote = <<>>
                /\ pc'[c] = "reply"
          /\ (pc[c] = "read" /\ pc'[c] = "main")
             => unread' = unread /\ hold'[c] = NoHold
          /\ (pc[c] = "reply" /\ pc'[c] = "main")
             => /\ last'.step = "reply" /\ last'.conn = c
                /\ last'.wrote = hold[c].reply
                /\ last'.out = "ok"
      ]_vars

\* C34: connected_users never holds an id twice, and two connections that
\* are in their handshakes at the same moment, each with the id add_user
\* returned to it, have different ids.
C34_UniqueIds ==
    /\ \A i, j \in 1..Len(connected_users) :
           i # j => connected_users[i] # connected_users[j]
    /\ \A c, d \in Conns :
           (c # d /\ pc[c] \in {"id", "joined"} /\ pc[d] \in {"id", "joined"})
           => local_id[c] # local_id[d]

\* the scheduling of the threads: the dispatcher and every connection thread
\* take their next step whenever they have one.  A thread inside a
\* write_all that never returns, or waiting for a lock that is never
\* released, has none.
SpecRouterFair ==
    /\ SpecRouter
    /\ WF_vars(DispatchWithin(RouterCapacity))
    /\ \A c \in Conns : WF_vars(ServeStamped(c))

\* the side-message numbered k, addressed to the user of connection c
Routed(c, k) == <<local_id[c], new_message(Dec(k))>>
Posted(c, k) ==
    /\ pc[c] \in LoopPcs
    /\ \E i \in 1..Len(intake) : intake[i] = Routed(c, k)
Written(c, k) ==
    /\ last.step = "recv" /\ last.conn = c
    /\ last.bus = <<Routed(c, k)>>
    /\ last.bus_wrote = <<new_message(Dec(k))>>
    /\ last.out = "ok"
\* the user of connection c has not stayed connected
Gone(c) == ~Contains(connected_users, local_id[c])
Occurrences(q, item) == Cardinality({i \in 1..Len(q) : q[i] = item})

\* C35: a side-message posted to the intake channel for the user of a
\* running handler is eventually written by that handler, unless the user
\* does not stay connected; it is never held twice on its way (intake
\* channel and the handler's queue), and once the handler has written it,
\* it is in neither.
C35_EventuallyWritten ==
    /\ \A c \in Conns, k \in 0..RouterPosts - 1 :
           Posted(c, k) ~> (Written(c, k) \/ Gone(c))
    /\ [](\A c \in Conns, k \in 0..RouterPosts - 1 :
              /\ Occurrences(rx[c] \o intake, Routed(c, k)) <= 1
              /\ Written(c, k) => Occurrences(rx[c] \o intake, Routed(c, k)) = 0)

\* C36: every game's attempts counter stays between 0 and 3, and a GUESS is
\* never applied to a game whose counter is 0, so the 8-bit decrement never
\* underflows.
C36_AttemptsNeverUnderflow ==
    [][/\ \A i \in 1..Len(ongoing_games') :
              ongoing_games'[i].attempts \in 0..INITIAL_ATTEMPTS
       /\ (Executed("Guess") /\ lock = "free"
           /\ FirstGameOf(ongoing_games, Actor) # 0)
          => \/ ongoing_games[FirstGameOf(ongoing_games, Actor)].attempts > 0
             \/ last'.kind = "ErrorMessage"
      ]_vars

\* C37: a DROP never asks for the registry lock while its thread holds it:
\* whatever the number of games of the user, the command returns with the
\* lock released.
C37_DropReturns ==
    [][(Executed("Drop") /\ lock = "free")
       => /\ last'.kind = "TerminateUser"
          /\ lock' = "free"
      ]_vars

\* C38: a connection is never assigned an id while its bus subscription,
\* which it holds since before the handshake, contains a message addressed
\* to that id: such a message was published before the assignment, and the
\* handler would write it to its socket in its next iterations.
C38_NoStaleDelivery ==
    [][\A c \in Conns :
          (pc[c] = "validate" /\ pc'[c] = "id")
          => \A i \in 1..Len(rx'[c]) : rx'[c][i][1] # local_id'[c]
      ]_vars

\* C40: when a wrong GUESS leaves the game Ongoing, the reply to the guesser
\* and the side-message to the host both report the attempts counter the
\* game has after the guess.
C40_ReportsAttemptsLeft ==
    [][\A i \in 1..Len(ongoing_games) :
          (/\ Executed("Guess") /\ lock = "free"
           /\ i = FirstGameOf(ongoing_games, Actor)
           /\ ongoing_games[i].game_state = Ongoing
           /\ ongoing_games[i].attempts > 1
           /\ ~guess_matches(last'.cmd.data, ongoing_games[i].secret))
          => /\ ongoing_games'[i].game_state = Ongoing
             /\ last'.answer =
                  <<new_message(T_OK_GUESS_ \o last'.cmd.data \o T_IS_INCORRECT_
                                \o Dec(ongoing_games'[i].attempts) \o T_ATTEMPTS_LEFT)>>
             /\ last'.posted =
                  <<<<ongoing_games[i].host_id,
                      new_message(T_GUESS_ \o last'.cmd.data \o T_IS_INCORRECT_
                                  \o Dec(ongoing_games'[i].attempts) \o T_ATTEMPTS_LEFT)>>>>
      ]_vars

(***************************************************************************)
(* The server with clients that list the users, send direct messages, drop *)
(* and disconnect.                                                         *)
(***************************************************************************)
NextBroken ==
    \/ \E c \in Conns : Accept(c)
    \/ \E c \in Conns : Join(c, PasswordInputs, Outcomes)
    \/ \E c \in Conns : Serve(c, UserInputs \cup BusInputs)
    \/ Dispatch

SpecBroken == Init /\ [][NextBroken]_vars

\* C39: no two running handlers use the same user id as their local id.
C39_OneHandlerPerId ==
    \A c, d \in Conns :
        (c # d /\ pc[c] \in LoopPcs /\ pc[d] \in LoopPcs) => local_id[c] # local_id[d]

====
